---- MODULE Spec2Model ----
(***************************************************************************)
(* Weekly-Dashboard-Performance: the layout-discovery engine, its shared   *)
(* cache (SheetsService.GetLayout / InvalidateLayout), the batch fetcher   *)
(* (SheetsService.FetchKPIData), the dashboard computation                 *)
(* (DashboardService.GetDashboardData) and the snapshot store accessor     *)
(* (DashboardService.SaveSnapshot).                                        *)
(*                                                                         *)
(* Conventions.  Text is a sequence of one-character strings, so that      *)
(* strings.TrimSpace, strings.ToLower and the prefix/suffix tests are      *)
(* computed and not assumed.  A Go nil pointer, a nil error and a nil      *)
(* interface value are the model value None.  Time is counted in minutes.  *)
(***************************************************************************)
EXTENDS Integers, Sequences, FiniteSets, TLC

\* A nil error; an error is the text of its message.
None == "nil"

(***************************************************************************)
(* Bounds of the model.                                                    *)
(***************************************************************************)
NumProcs == 2
MaxTime == 6
NumSavers == 2
MaxRows == 4

Procs == 1..NumProcs
Savers == 1..NumSavers

(***************************************************************************)
(* Text.                                                                   *)
(***************************************************************************)
Upper == <<"A","B","C","D","E","F","G","H","I","J","K","L","M",
           "N","O","P","Q","R","S","T","U","V","W","X","Y","Z">>
Lower == <<"a","b","c","d","e","f","g","h","i","j","k","l","m",
           "n","o","p","q","r","s","t","u","v","w","x","y","z">>

IsText(v) == DOMAIN v = 1..Len(v)

SetMin(S) == CHOOSE x \in S : \A y \in S : x <= y
SetMax(S) == CHOOSE x \in S : \A y \in S : x >= y

ToLowerChar(c) ==
    IF \E i \in 1..26 : Upper[i] = c
    THEN Lower[CHOOSE i \in 1..26 : Upper[i] = c]
    ELSE c

ToLower(s) == [i \in 1..Len(s) |-> ToLowerChar(s[i])]

IsSpace(c) == c \in {" ", "\t", "\n", "\r"}

TrimSpace(s) ==
    LET keep == {i \in 1..Len(s) : ~IsSpace(s[i])}
    IN  IF keep = {} THEN <<>> ELSE SubSeq(s, SetMin(keep), SetMax(keep))

HasPrefix(s, p) == Len(s) >= Len(p) /\ SubSeq(s, 1, Len(p)) = p
HasSuffix(s, p) == Len(s) >= Len(p) /\ SubSeq(s, Len(s) - Len(p) + 1, Len(s)) = p
TrimPrefix(s, p) == IF HasPrefix(s, p) THEN SubSeq(s, Len(p) + 1, Len(s)) ELSE s
TrimSuffix(s, p) == IF HasSuffix(s, p) THEN SubSeq(s, 1, Len(s) - Len(p)) ELSE s

(***************************************************************************)
(* monthNames / nameToMonth.                                               *)
(***************************************************************************)
monthNames ==
    <<  <<"j","a","n","u","a","r","y">>,
        <<"f","e","b","r","u","a","r","y">>,
        <<"m","a","r","c","h">>,
        <<"a","p","r","i","l">>,
        <<"m","a","y">>,
        <<"j","u","n","e">>,
        <<"j","u","l","y">>,
        <<"a","u","g","u","s","t">>,
        <<"s","e","p","t","e","m","b","e","r">>,
        <<"o","c","t","o","b","e","r">>,
        <<"n","o","v","e","m","b","e","r">>,
        <<"d","e","c","e","m","b","e","r">> >>

\* nameToMonth[name], with 0 standing for "not a key of the map".
nameToMonth(name) ==
    IF \E m \in 1..12 : monthNames[m] = name
    THEN CHOOSE m \in 1..12 : monthNames[m] = name
    ELSE 0

T_pct == <<"%"," ">>
T_performance == <<" ","p","e","r","f","o","r","m","a","n","c","e">>
T_target == <<" ","t","a","r","g","e","t">>
T_lagging == <<" ","l","a","g","g","i","n","g">>

\* matchMonthFromHeader: (month, column type), (0, "") when nothing matches.
matchMonthFromHeader(header) ==
    LET h == TrimSpace(header)
        lower == ToLower(h)
        mid == TrimSpace(TrimSuffix(TrimPrefix(lower, T_pct), T_performance))
    IN  IF HasPrefix(lower, T_pct) /\ HasSuffix(lower, T_performance)
           /\ nameToMonth(mid) # 0
        THEN [month |-> nameToMonth(mid), colType |-> "percent"]
        ELSE IF \E m \in 1..12 : lower = monthNames[m] \o T_target
        THEN [month |-> CHOOSE m \in 1..12 : lower = monthNames[m] \o T_target,
              colType |-> "target"]
        ELSE IF \E m \in 1..12 : lower = monthNames[m] \o T_lagging
        THEN [month |-> CHOOSE m \in 1..12 : lower = monthNames[m] \o T_lagging,
              colType |-> "lagging"]
        ELSE IF nameToMonth(lower) # 0
        THEN [month |-> nameToMonth(lower), colType |-> "perf"]
        ELSE [month |-> 0, colType |-> ""]

(***************************************************************************)
(* Numbers (float64) are exact rationals n/d in lowest terms with d > 0.   *)
(***************************************************************************)
RECURSIVE Gcd(_, _)
Gcd(a, b) == IF b = 0 THEN a ELSE Gcd(b, a % b)

Abs(x) == IF x < 0 THEN -x ELSE x

Rat(n, d) ==
    LET g == Gcd(Abs(n), Abs(d))
        sgn == IF d < 0 THEN -1 ELSE 1
    IN  [n |-> sgn * (n \div g), d |-> sgn * (d \div g)]

Zero == Rat(0, 1)
Whole(k) == Rat(k, 1)

RatLess(a, b) == a.n * b.d < b.n * a.d
RatLeq(a, b) == a.n * b.d <= b.n * a.d
RatMul(a, b) == Rat(a.n * b.n, a.d * b.d)
RatSub(a, b) == Rat(a.n * b.d - b.n * a.d, a.d * b.d)
\* a / b for b # 0
RatDiv(a, b) == Rat(a.n * b.d, a.d * b.n)

(***************************************************************************)
(* Cell values of the sheets API ([]interface{}): a string or a number.    *)
(***************************************************************************)
Str(s) == [kind |-> "string", s |-> s, v |-> Zero]
Num(r) == [kind |-> "number", s |-> <<>>, v |-> r]
\* The nil interface{} and a value of another type (a bool).
Nil == [kind |-> "nil", s |-> <<>>, v |-> Zero]
Other == [kind |-> "bool", s |-> <<>>, v |-> Zero]

\* The float64 values that are no numbers n/d.  The arithmetic above is on
\* finite numbers: these come out of strconv.ParseFloat and go no further here.
NaN == [n |-> 0, d |-> 0]
PosInf == [n |-> 1, d |-> 0]
NegInf == [n |-> -1, d |-> 0]

\* A response of Spreadsheets.Values.Get: the error, or the rows read.
RespErr == [err |-> TRUE, Values |-> <<>>]
RespOk(rows) == [err |-> FALSE, Values |-> rows]

(***************************************************************************)
(* DiscoveredLayout.  MonthColumns maps a month to the four zero-based     *)
(* column indices <<target, lagging, percent, perf>>; KPIRows maps a       *)
(* normalised label to its row numbers.  A nil *DiscoveredLayout is        *)
(* NilLayout.  Source is not a field of the Go struct: it records which    *)
(* configured spreadsheet the snapshot was read from.                      *)
(***************************************************************************)
NilLayout == [isNil |-> TRUE]

MkLayout(monthCols, kpiRows, t, source) ==
    [isNil |-> FALSE, MonthColumns |-> monthCols, KPIRows |-> kpiRows,
     LastRefresh |-> t, Source |-> source]

ZeroEntry == <<0, 0, 0, 0>>

\* The loop body with a slot that keeps the first index recorded in it.
discoverColumnsStep_KeepFirst(result, colIdx, cell) ==
    IF cell.kind # "string" THEN result
    ELSE LET mt == matchMonthFromHeader(cell.s)
             entry == IF mt.month \in DOMAIN result THEN result[mt.month] ELSE ZeroEntry
             slot == CASE mt.colType = "target" -> 1
                       [] mt.colType = "lagging" -> 2
                       [] mt.colType = "percent" -> 3
                       [] OTHER -> 4
         IN  IF mt.month = 0 \/ entry[slot] # 0 THEN result
             ELSE [m \in DOMAIN result \cup {mt.month} |->
                     IF m = mt.month THEN [entry EXCEPT ![slot] = colIdx]
                     ELSE result[m]]

\* The body of the loop of discoverColumns for the cell at zero-based colIdx.
discoverColumnsStep(result, colIdx, cell) ==
    IF cell.kind # "string" THEN result
    ELSE LET mt == matchMonthFromHeader(cell.s)
             entry == IF mt.month \in DOMAIN result THEN result[mt.month] ELSE ZeroEntry
             slot == CASE mt.colType = "target" -> 1
                       [] mt.colType = "lagging" -> 2
                       [] mt.colType = "percent" -> 3
                       [] OTHER -> 4
         IN  IF mt.month = 0 THEN result
             ELSE [m \in DOMAIN result \cup {mt.month} |->
                     IF m = mt.month THEN [entry EXCEPT ![slot] = colIdx]
                     ELSE result[m]]

RECURSIVE discoverColumnsLoop(_, _)
discoverColumnsLoop(row, k) ==
    IF k = 0 THEN <<>>
    ELSE discoverColumnsStep(discoverColumnsLoop(row, k - 1), k - 1, row[k])

\* discoverColumns on the response of the header read.
discoverColumns(resp) ==
    IF resp.err THEN [err |-> "failed to fetch header row", cols |-> <<>>]
    ELSE IF Len(resp.Values) = 0 \/ Len(resp.Values[1]) = 0
    THEN [err |-> "header row is empty", cols |-> <<>>]
    ELSE [err |-> None,
          cols |-> discoverColumnsLoop(resp.Values[1], Len(resp.Values[1]))]

\* The body of the loop of discoverRows for the row at zero-based rowIdx.
discoverRowsStep(result, rowIdx, row) ==
    IF Len(row) = 0 THEN result
    ELSE IF row[1].kind # "string" \/ row[1].s = <<>> THEN result
    ELSE LET key == ToLower(TrimSpace(row[1].s))
             old == IF key \in DOMAIN result THEN result[key] ELSE <<>>
         IN  [k \in DOMAIN result \cup {key} |->
                 IF k = key THEN Append(old, rowIdx + 1) ELSE result[k]]

RECURSIVE discoverRowsLoop(_, _)
discoverRowsLoop(rows, k) ==
    IF k = 0 THEN <<>>
    ELSE discoverRowsStep(discoverRowsLoop(rows, k - 1), k - 1, rows[k])

\* discoverRows on the response of the read of column C.
discoverRows(resp) ==
    IF resp.err THEN [err |-> "failed to fetch column C", rows |-> <<>>]
    ELSE IF Len(resp.Values) = 0 THEN [err |-> None, rows |-> <<>>]
    ELSE [err |-> None, rows |-> discoverRowsLoop(resp.Values, Len(resp.Values))]

\* DiscoverLayout on the two responses, at time t, for the configured source.
DiscoverLayout(hdrResp, colResp, t, source) ==
    LET c == discoverColumns(hdrResp)
        r == discoverRows(colResp)
    IN  IF c.err # None THEN [err |-> "column discovery failed", layout |-> NilLayout]
        ELSE IF r.err # None THEN [err |-> "row discovery failed", layout |-> NilLayout]
        ELSE [err |-> None, layout |-> MkLayout(c.cols, r.rows, t, source)]

(***************************************************************************)
(* State.                                                                  *)
(*   sheet    the external spreadsheet as it is now: header row, column C  *)
(*            and the data rows (operator-edited, outside the program)     *)
(*   config   config.AppConfig: SpreadsheetID, SheetName, SpreadsheetYear  *)
(*   now      the clock, in minutes                                        *)
(*   layout   SheetsService.layout                                         *)
(*   readers  goroutines holding layoutMu for reading                      *)
(*   writer   the goroutine holding layoutMu's writer mutex: it has        *)
(*            announced itself, and owns the lock once no reader is left   *)
(*   pc       where each goroutine stands in GetLayout / InvalidateLayout  *)
(*   ret      history: what the GetLayout call that returned last gave     *)
(*            back to its caller, and through which exit path              *)
(*   forced   history: "no", or whether the snapshot dropped by the last   *)
(*            InvalidateLayout was "young" (fresh) or "old", until a       *)
(*            refresh round trip ends                                      *)
(*   snapshots  the rows of table weekly_snapshots that are not deleted,   *)
(*            in insertion order                                           *)
(*   sv       each SaveSnapshot / DeleteSnapshotWeek caller: where it      *)
(*            stands, its arguments, and what its last call returned       *)
(*   catalog  table indicators, in display order                           *)
(*   dash     the GetDashboardData request of goroutine 1: where it        *)
(*            stands, its arguments, what FetchKPIData returned to it and  *)
(*            what it returned                                             *)
(*   today    time.Now().Day(): the day of the month of the run            *)
(*   calc     one call of a function that touches no state: the function,  *)
(*            its arguments and, once it has run, its result               *)
(***************************************************************************)
VARIABLES sheet, config, now, layout, readers, writer, pc, ret, forced,
          snapshots, sv, catalog, dash, today, calc

cacheVars == <<sheet, config, now, layout, readers, writer, pc, ret, forced>>

appVars == <<snapshots, sv, catalog, dash, today, calc>>

vars == <<sheet, config, now, layout, readers, writer, pc, ret, forced,
          snapshots, sv, catalog, dash, today, calc>>

\* The freshness window of GetLayout, 5*time.Minute.
FreshWindow == 5

\* The comparison of the freshness test turned around.
IsFresh_Inverted(l, t) == ~l.isNil /\ t - l.LastRefresh > FreshWindow

\* s.layout != nil && time.Since(s.layout.LastRefresh) < 5*time.Minute
IsFresh(l, t) == ~l.isNil /\ t - l.LastRefresh < FreshWindow

RetNone == [layout |-> NilLayout, err |-> None, path |-> ""]
Returned(l, e, path) == [layout |-> l, err |-> e, path |-> path]

\* A failed refresh that always propagates the error.
StaleOrError_Propagate(l, e) == Returned(NilLayout, e, "error")

\* The exit of a failed refresh: the cached layout if there is one, else the error.
StaleOrError(l, e) ==
    IF ~l.isNil THEN Returned(l, None, "stale") ELSE Returned(NilLayout, e, "error")

(***************************************************************************)
(* sync.RWMutex.  Lock takes the writer mutex and announces the writer,    *)
(* which stops new readers, then waits for the readers that hold the lock. *)
(***************************************************************************)
CanRLock == writer = 0
CanLock == writer = 0
NoReaders == readers = {}

(***************************************************************************)
(* SheetsService.GetLayout.                                                *)
(***************************************************************************)
\* s.layoutMu.RLock()
GetLayout_RLock(p) ==
    /\ pc[p] = "idle"
    /\ CanRLock
    /\ readers' = readers \cup {p}
    /\ pc' = [pc EXCEPT ![p] = "gl_rlocked"]
    /\ UNCHANGED <<sheet, config, now, layout, writer, ret, forced>>
    /\ UNCHANGED appVars

\* The first freshness test, under the read lock: return, or RUnlock and go on.
GetLayout_FastPath(p) ==
    /\ pc[p] = "gl_rlocked"
    /\ readers' = readers \ {p}
    /\ IF IsFresh(layout, now)
       THEN /\ ret' = Returned(layout, None, "fresh")
            /\ pc' = [pc EXCEPT ![p] = "idle"]
       ELSE /\ pc' = [pc EXCEPT ![p] = "gl_wantlock"]
            /\ UNCHANGED ret
    /\ UNCHANGED <<sheet, config, now, layout, writer, forced>>
    /\ UNCHANGED appVars

\* The refresh section entered under the read lock instead of the write lock.
GetLayout_Lock_Shared(p) ==
    /\ pc[p] = "gl_wantlock"
    /\ CanRLock
    /\ readers' = readers \cup {p}
    /\ pc' = [pc EXCEPT ![p] = "gl_locked"]
    /\ UNCHANGED <<sheet, config, now, layout, writer, ret, forced>>
    /\ UNCHANGED appVars

\* s.layoutMu.Lock(): the writer mutex is taken and the writer announced.
GetLayout_Lock(p) ==
    /\ pc[p] = "gl_wantlock"
    /\ CanLock
    /\ writer' = p
    /\ pc' = [pc EXCEPT ![p] = "gl_lockwait"]
    /\ UNCHANGED <<sheet, config, now, layout, readers, ret, forced>>
    /\ UNCHANGED appVars

\* s.layoutMu.Lock() returns: no reader is left.
GetLayout_Locked(p) ==
    /\ pc[p] = "gl_lockwait"
    /\ writer = p
    /\ NoReaders
    /\ pc' = [pc EXCEPT ![p] = "gl_locked"]
    /\ UNCHANGED <<sheet, config, now, layout, readers, writer, ret, forced>>
    /\ UNCHANGED appVars

\* GetLayout without the second freshness test.
GetLayout_DoubleCheck_Skipped(p) ==
    /\ pc[p] = "gl_locked"
    /\ pc' = [pc EXCEPT ![p] = "gl_client"]
    /\ UNCHANGED <<sheet, config, now, layout, readers, writer, ret, forced>>
    /\ UNCHANGED appVars

\* The second freshness test, under the write lock.
GetLayout_DoubleCheck(p) ==
    /\ pc[p] = "gl_locked"
    /\ IF IsFresh(layout, now)
       THEN /\ ret' = Returned(layout, None, "dcheck")
            /\ pc' = [pc EXCEPT ![p] = "idle"]
            /\ writer' = 0
       ELSE /\ pc' = [pc EXCEPT ![p] = "gl_client"]
            /\ UNCHANGED <<ret, writer>>
    /\ UNCHANGED <<sheet, config, now, layout, readers, forced>>
    /\ UNCHANGED appVars

\* A failed client that returns with the write lock still held.
GetLayout_CreateClient_NoUnlock(p) ==
    /\ pc[p] = "gl_client"
    /\ \E ok \in BOOLEAN :
         IF ok
         THEN /\ pc' = [pc EXCEPT ![p] = "gl_discover"]
              /\ UNCHANGED <<ret, writer, forced>>
         ELSE /\ ret' = StaleOrError(layout, "failed to get valid token")
              /\ pc' = [pc EXCEPT ![p] = "idle"]
              /\ UNCHANGED writer
              /\ forced' = "no"
    /\ UNCHANGED <<sheet, config, now, layout, readers>>
    /\ UNCHANGED appVars

\* s.CreateSheetsClient(ctx, user): the token refresh succeeds or fails.
GetLayout_CreateClient(p) ==
    /\ pc[p] = "gl_client"
    /\ \E ok \in BOOLEAN :
         IF ok
         THEN /\ pc' = [pc EXCEPT ![p] = "gl_discover"]
              /\ UNCHANGED <<ret, writer, forced>>
         ELSE /\ ret' = StaleOrError(layout, "failed to get valid token")
              /\ pc' = [pc EXCEPT ![p] = "idle"]
              /\ writer' = 0
              /\ forced' = "no"
    /\ UNCHANGED <<sheet, config, now, layout, readers>>
    /\ UNCHANGED appVars

\* What a read of the sheet returns: the rows, or a transport error.
Reads(rows) == {RespErr, RespOk(rows)}

\* A failed discovery that stamps the cached layout with the time of the try.
GetLayout_Discover_Touch(p) ==
    /\ pc[p] = "gl_discover"
    /\ \E hdr \in Reads(sheet.header), col \in Reads(sheet.labels) :
         LET d == DiscoverLayout(hdr, col, now, config.SpreadsheetID)
         IN  IF d.err # None
             THEN /\ ret' = StaleOrError(layout, d.err)
                  /\ layout' = IF layout.isNil THEN layout
                                ELSE [layout EXCEPT !.LastRefresh = now]
             ELSE /\ layout' = d.layout
                  /\ ret' = Returned(d.layout, None, "refreshed")
    /\ pc' = [pc EXCEPT ![p] = "idle"]
    /\ writer' = 0
    /\ forced' = "no"
    /\ UNCHANGED <<sheet, config, now, readers>>
    /\ UNCHANGED appVars

\* DiscoverLayout(...), then the store of the new layout or the fallback.
GetLayout_Discover(p) ==
    /\ pc[p] = "gl_discover"
    /\ \E hdr \in Reads(sheet.header), col \in Reads(sheet.labels) :
         LET d == DiscoverLayout(hdr, col, now, config.SpreadsheetID)
         IN  IF d.err # None
             THEN /\ ret' = StaleOrError(layout, d.err)
                  /\ UNCHANGED layout
             ELSE /\ layout' = d.layout
                  /\ ret' = Returned(d.layout, None, "refreshed")
    /\ pc' = [pc EXCEPT ![p] = "idle"]
    /\ writer' = 0
    /\ forced' = "no"
    /\ UNCHANGED <<sheet, config, now, readers>>
    /\ UNCHANGED appVars

(***************************************************************************)
(* SheetsService.InvalidateLayout.                                         *)
(***************************************************************************)
InvalidateLayout_Lock(p) ==
    /\ pc[p] = "idle"
    /\ CanLock
    /\ writer' = p
    /\ pc' = [pc EXCEPT ![p] = "inv_lockwait"]
    /\ UNCHANGED <<sheet, config, now, layout, readers, ret, forced>>
    /\ UNCHANGED appVars

InvalidateLayout_Locked(p) ==
    /\ pc[p] = "inv_lockwait"
    /\ writer = p
    /\ NoReaders
    /\ pc' = [pc EXCEPT ![p] = "inv_locked"]
    /\ UNCHANGED <<sheet, config, now, layout, readers, writer, ret, forced>>
    /\ UNCHANGED appVars

\* InvalidateLayout that leaves the cached layout in place.
InvalidateLayout_Clear_Kept(p) ==
    /\ pc[p] = "inv_locked"
    /\ forced' = IF IsFresh(layout, now) THEN "young" ELSE "old"
    /\ writer' = 0
    /\ pc' = [pc EXCEPT ![p] = "idle"]
    /\ UNCHANGED <<sheet, config, now, layout, readers, ret>>
    /\ UNCHANGED appVars

\* s.layout = nil, and the deferred Unlock.
InvalidateLayout_Clear(p) ==
    /\ pc[p] = "inv_locked"
    /\ layout' = NilLayout
    /\ forced' = IF IsFresh(layout, now) THEN "young" ELSE "old"
    /\ writer' = 0
    /\ pc' = [pc EXCEPT ![p] = "idle"]
    /\ UNCHANGED <<sheet, config, now, readers, ret>>
    /\ UNCHANGED appVars

(***************************************************************************)
(* The environment: time passes, and the operators edit the spreadsheet.   *)
(***************************************************************************)
Tick ==
    /\ now < MaxTime
    /\ now' = now + 1
    /\ UNCHANGED <<sheet, config, layout, readers, writer, pc, ret, forced>>
    /\ UNCHANGED appVars

(***************************************************************************)
(* Spreadsheets the operators may leave behind.  Row 1 is the header row;  *)
(* SheetA has the columns of May at D..G and the label "csat" twice.       *)
(***************************************************************************)
HeaderA ==
    << Str(<<"N","o">>), Str(<<"D","e","p","t">>), Str(<<"K","P","I">>),
       Str(<<"M","a","y"," ","T","a","r","g","e","t">>),
       Str(<<"M","a","y"," ","L","a","g","g","i","n","g">>),
       Str(<<"%"," ","M","a","y"," ","P","e","r","f","o","r","m","a","n","c","e">>),
       Str(<<"M","a","y">>) >>

LabelsA ==
    << <<Str(<<"K","P","I">>)>>, <<Str(<<"R","e","v","e","n","u","e">>)>>, <<>>,
       <<Str(<<"C","S","A","T">>)>>, <<Str(<<"c","s","a","t"," ">>)>> >>

\* Rows 2, 4 and 5 of SheetA; row 3 is empty and row 5 stops at the target.
RowRevenue ==
    << Str(<<"1">>), Str(<<"F","I","N">>), Str(<<"R","e","v","e","n","u","e">>), Str(<<"1",",","0","0","0">>), Str(<<>>),
       Str(<<"9","0","%">>), Num(Whole(900)) >>
RowCsat ==
    << Str(<<"2">>), Str(<<"D","E","L">>), Str(<<"C","S","A","T">>), Num(Whole(4)), Str(<<"-">>),
       Str(<<"n","/","a">>), Str(<<"4",".","5">>) >>
RowCsat2 ==
    << Str(<<"3">>), Str(<<"D","E","L">>), Str(<<"c","s","a","t"," ">>), Str(<<"1","0">>) >>

DataA == <<HeaderA, RowRevenue, <<>>, RowCsat, RowCsat2>>

SheetA == [header |-> <<HeaderA>>, labels |-> LabelsA, data |-> DataA]
SheetNoHeader == [header |-> <<>>, labels |-> LabelsA, data |-> <<>>]
SheetNoLabels == [header |-> <<HeaderA>>, labels |-> <<>>, data |-> <<HeaderA>>]

Sheets == {SheetA, SheetNoHeader, SheetNoLabels}

EditSheet ==
    /\ \E s \in Sheets \ {sheet} : sheet' = s
    /\ UNCHANGED <<config, now, layout, readers, writer, pc, ret, forced>>
    /\ UNCHANGED appVars

(***************************************************************************)
(* SettingsHandler.UpdateSpreadsheetSettings, between two calls of         *)
(* GetLayout.  A request that does not bind, has no spreadsheet id after   *)
(* trimming or whose settings cannot be saved changes nothing; otherwise   *)
(* the runtime configuration is assigned and the reads that follow go to   *)
(* the spreadsheet now configured, whose content is any of Sheets.         *)
(***************************************************************************)
SettingIDs == {"", "sheet-1", "sheet-2"}
SettingNames == {"", "KPI 2026", "Sheet1"}

UpdateSpreadsheetSettings ==
    /\ \A p \in Procs : pc[p] = "idle"
    /\ \E bindOk \in BOOLEAN, id \in SettingIDs, name \in SettingNames,
          saveIdOk \in BOOLEAN, saveNameOk \in BOOLEAN :
         LET sheetName == IF name = "" THEN config.SheetName ELSE name
             updated == [config EXCEPT !.SpreadsheetID = id,
                                       !.SheetName = sheetName]
         IN  IF ~bindOk \/ id = "" \/ ~saveIdOk \/ ~saveNameOk
             THEN UNCHANGED <<config, sheet>>
             ELSE /\ config' = updated
                  /\ IF updated = config THEN UNCHANGED sheet
                     ELSE sheet' \in Sheets
    /\ UNCHANGED <<now, layout, readers, writer, pc, ret, forced>>
    /\ UNCHANGED appVars

(***************************************************************************)
(* DashboardService.SaveSnapshot on table weekly_snapshots.  The delete    *)
(* and every insert is one statement of its own (no transaction), and      *)
(* each may fail.                                                          *)
(***************************************************************************)
SvIdle ==
    [pc |-> "idle", month |-> 0, year |-> 0, week |-> 0, inds |-> <<>>,
     i |-> 0, date |-> 0, err |-> None, failed |-> FALSE, done |-> FALSE]

\* The models.WeeklySnapshot built from one IndicatorResponse.
MkSnapshot(ind, date, m, y, w) ==
    [IndicatorID |-> ind.Code, Department |-> ind.Department,
     IndicatorName |-> ind.Name, TargetValue |-> ind.Target,
     PerformanceValue |-> ind.Performance, Percentage |-> ind.Percentage,
     SnapshotDate |-> date, Month |-> m, WeekNumber |-> w, Year |-> y]

\* WHERE month = ? AND year = ? AND week_number = ?
InWeek(r, m, y, w) == r.Month = m /\ r.Year = y /\ r.WeekNumber = w

\* A DELETE that leaves the week out of its condition.
DeleteWeek_WholeMonth(table, m, y, w) ==
    LET Keep(r) == ~(r.Month = m /\ r.Year = y) IN SelectSeq(table, Keep)

\* The table after DELETE ... WHERE month = ? AND year = ? AND week_number = ?
DeleteWeek(table, m, y, w) ==
    LET Keep(r) == ~InWeek(r, m, y, w) IN SelectSeq(table, Keep)

\* The rows SELECT ... WHERE month = ? AND year = ? AND week_number = ? gives.
RowsOfWeek(table, m, y, w) ==
    LET Hit(r) == InWeek(r, m, y, w) IN SelectSeq(table, Hit)

\* What the caller may pass: IndicatorResponse lists (the fields SaveSnapshot
\* reads), over two metric codes and two percentages.
IndResp(code, pct) ==
    [Code |-> code, Department |-> "FINANCE", Name |-> code,
     Target |-> Whole(100), Performance |-> pct, Percentage |-> pct]

SnapInputs ==
    { <<>>,
      <<IndResp("KPI-01", Whole(90))>>,
      <<IndResp("KPI-01", Whole(40))>>,
      <<IndResp("KPI-02", Whole(90))>>,
      <<IndResp("KPI-01", Whole(90)), IndResp("KPI-02", Whole(90))>> }

SnapMonths == {5}
SnapYears == {2026}
SnapWeeks == {1, 2}

\* The entry of SaveSnapshot: snapshotDate, then the delete, whose error is
\* logged and dropped.  With no indicator the loop is empty and nil returned.
SaveSnapshot_Delete(p) ==
    /\ sv[p].pc = "idle"
    /\ \E m \in SnapMonths, y \in SnapYears, w \in SnapWeeks,
          inds \in SnapInputs, delOk \in BOOLEAN :
         /\ Len(snapshots) + Len(inds) <= MaxRows
         /\ snapshots' = IF delOk THEN DeleteWeek(snapshots, m, y, w) ELSE snapshots
         /\ sv' = [sv EXCEPT ![p] =
                     [pc |-> IF inds = <<>> THEN "idle" ELSE "insert",
                      month |-> m, year |-> y, week |-> w, inds |-> inds,
                      i |-> 1, date |-> now, err |-> None,
                      failed |-> ~delOk, done |-> inds = <<>>]]
    /\ UNCHANGED <<cacheVars, catalog, dash, today, calc>>

\* One turn of the loop: database.DB.Create(&snapshot), returning its error.
SaveSnapshot_Insert(p) ==
    /\ sv[p].pc = "insert"
    /\ LET c == sv[p]
           row == MkSnapshot(c.inds[c.i], c.date, c.month, c.year, c.week)
       IN  \E ok \in BOOLEAN :
             IF ok
             THEN /\ snapshots' = Append(snapshots, row)
                  /\ sv' = [sv EXCEPT ![p] =
                              IF c.i = Len(c.inds)
                              THEN [c EXCEPT !.pc = "idle", !.done = TRUE]
                              ELSE [c EXCEPT !.i = c.i + 1]]
             ELSE /\ UNCHANGED snapshots
                  /\ sv' = [sv EXCEPT ![p] =
                              [c EXCEPT !.pc = "idle", !.done = TRUE,
                                        !.failed = TRUE,
                                        !.err = "create failed"]]
    /\ UNCHANGED <<cacheVars, catalog, dash, today, calc>>

\* DeleteSnapshotWeek: the delete of the week's snapshots, whose error is
\* returned, then the delete of the week's screenshot, whose error is only
\* logged.  Screenshots are another table and are not part of the state.
DeleteSnapshotWeek(p) ==
    /\ sv[p].pc = "idle"
    /\ \E m \in SnapMonths, y \in SnapYears, w \in SnapWeeks,
          snapOk \in BOOLEAN, screenOk \in BOOLEAN :
         /\ snapshots' = IF snapOk THEN DeleteWeek(snapshots, m, y, w) ELSE snapshots
         /\ sv' = [sv EXCEPT ![p] =
                     [SvIdle EXCEPT !.month = m, !.year = y, !.week = w,
                                    !.date = now, !.done = TRUE,
                                    !.failed = ~snapOk,
                                    !.err = IF snapOk THEN None ELSE "delete failed"]]
    /\ UNCHANGED <<cacheVars, catalog, dash, today, calc>>

(***************************************************************************)
(* Reading the data rows: parseFloat, getIndicatorRow, FetchKPIData.       *)
(***************************************************************************)
Digits == <<"0","1","2","3","4","5","6","7","8","9">>
IsDigit(c) == \E k \in 1..10 : Digits[k] = c
DigitVal(c) == (CHOOSE k \in 1..10 : Digits[k] = c) - 1

RECURSIVE DigitsVal(_)
DigitsVal(s) ==
    IF s = <<>> THEN 0
    ELSE 10 * DigitsVal(SubSeq(s, 1, Len(s) - 1)) + DigitVal(s[Len(s)])

RECURSIVE Pow10(_)
Pow10(k) == IF k = 0 THEN 1 ELSE 10 * Pow10(k - 1)

\* strings.ReplaceAll(s, c, "") for a one-character c.
RemoveAll(s, c) == LET Keep(x) == x # c IN SelectSeq(s, Keep)

\* digits[.digits] with at least one digit: whether s is one, and its value.
Mantissa(s) ==
    LET dots == {i \in 1..Len(s) : s[i] = "."}
        dot == IF dots = {} THEN Len(s) + 1 ELSE SetMin(dots)
        int == SubSeq(s, 1, dot - 1)
        frac == SubSeq(s, dot + 1, Len(s))
        all == int \o frac
        ok == Len(all) > 0 /\ \A i \in 1..Len(all) : IsDigit(all[i])
    IN  [ok |-> ok,
         v |-> IF ok THEN Rat(DigitsVal(all), Pow10(Len(frac))) ELSE Zero]

\* [+-]digits with at least one digit: whether s is one, and its value.
Exponent(s) ==
    LET signed == Len(s) > 0 /\ s[1] \in {"+", "-"}
        body == IF signed THEN SubSeq(s, 2, Len(s)) ELSE s
        ok == Len(body) > 0 /\ \A i \in 1..Len(body) : IsDigit(body[i])
    IN  [ok |-> ok,
         v |-> IF ~ok THEN 0
               ELSE IF signed /\ s[1] = "-" THEN -DigitsVal(body) ELSE DigitsVal(body)]

T_inf == <<"i","n","f">>
T_infinity == <<"i","n","f","i","n","i","t","y">>
T_nan == <<"n","a","n">>

\* strconv.ParseFloat(s, 64): [+-]digits[.digits][e[+-]digits], and, in any
\* case of letters, [+-]inf, [+-]infinity and nan; ok = FALSE is its error.
\* Hexadecimal notation, underscores and exponents beyond the range of a
\* float64 are in none of the texts drawn below.
ParseFloat(s) ==
    LET signed == Len(s) > 0 /\ s[1] \in {"+", "-"}
        negative == signed /\ s[1] = "-"
        body == IF signed THEN SubSeq(s, 2, Len(s)) ELSE s
        es == {i \in 1..Len(body) : body[i] \in {"e", "E"}}
        e == IF es = {} THEN Len(body) + 1 ELSE SetMin(es)
        mant == Mantissa(SubSeq(body, 1, e - 1))
        exp == IF es = {} THEN [ok |-> TRUE, v |-> 0]
               ELSE Exponent(SubSeq(body, e + 1, Len(body)))
        mag == IF exp.v >= 0 THEN RatMul(mant.v, Whole(Pow10(exp.v)))
               ELSE RatDiv(mant.v, Whole(Pow10(-exp.v)))
    IN  IF ToLower(body) \in {T_inf, T_infinity}
        THEN [ok |-> TRUE, v |-> IF negative THEN NegInf ELSE PosInf]
        ELSE IF ToLower(s) = T_nan
        THEN [ok |-> TRUE, v |-> NaN]
        ELSE IF mant.ok /\ exp.ok
        THEN [ok |-> TRUE, v |-> IF negative THEN RatSub(Zero, mag) ELSE mag]
        ELSE [ok |-> FALSE, v |-> Zero]

\* parseFloat on one cell.
parseFloat(val) ==
    IF val.kind = "number" THEN val.v
    ELSE IF val.kind = "string"
    THEN LET s == TrimSpace(RemoveAll(RemoveAll(val.s, "%"), ","))
         IN  IF s = <<>> \/ s = <<"-">> THEN Zero
             ELSE IF ParseFloat(s).ok THEN ParseFloat(s).v ELSE Zero
    ELSE Zero

RECURSIVE indexToColLoop(_, _)
indexToColLoop(index, result) ==
    IF index >= 0
    THEN indexToColLoop((index \div 26) - 1, <<Upper[(index % 26) + 1]>> \o result)
    ELSE result

indexToCol(index) == indexToColLoop(index, <<>>)

RECURSIVE colToIndexLoop(_)
colToIndexLoop(col) ==
    IF col = <<>> THEN 0
    ELSE colToIndexLoop(SubSeq(col, 1, Len(col) - 1)) * 26
           + (CHOOSE k \in 1..26 : Upper[k] = col[Len(col)])

colToIndex(col) == colToIndexLoop(col) - 1

\* The tie-break loop with a later row of equal distance replacing the best.
RECURSIVE closestRow_LastOnTie(_, _, _)
closestRow_LastOnTie(rows, k, fallback) ==
    IF k = 1 THEN rows[1]
    ELSE LET best == closestRow_LastOnTie(rows, k - 1, fallback)
         IN  IF Abs(rows[k] - fallback) <= Abs(best - fallback) THEN rows[k] ELSE best

\* The tie-break loop of getIndicatorRow over rows[1..k].
RECURSIVE closestRow(_, _, _)
closestRow(rows, k, fallback) ==
    IF k = 1 THEN rows[1]
    ELSE LET best == closestRow(rows, k - 1, fallback)
         IN  IF Abs(rows[k] - fallback) < Abs(best - fallback) THEN rows[k] ELSE best

\* The resolver without the fallback to the hardcoded row.
getIndicatorRow_NoFallback(l, indicator) ==
    LET key == ToLower(TrimSpace(indicator.SpreadsheetName))
        named == /\ indicator.SpreadsheetName # <<>>
                 /\ key \in DOMAIN l.KPIRows
                 /\ Len(l.KPIRows[key]) > 0
        rows == l.KPIRows[key]
    IN  IF named
        THEN [row |-> IF Len(rows) = 1 THEN rows[1]
                      ELSE closestRow(rows, Len(rows), indicator.SpreadsheetRow),
              found |-> TRUE]
        ELSE [row |-> 0, found |-> FALSE]

getIndicatorRow(l, indicator) ==
    LET key == ToLower(TrimSpace(indicator.SpreadsheetName))
        named == /\ indicator.SpreadsheetName # <<>>
                 /\ key \in DOMAIN l.KPIRows
                 /\ Len(l.KPIRows[key]) > 0
        rows == l.KPIRows[key]
    IN  IF named
        THEN [row |-> IF Len(rows) = 1 THEN rows[1]
                      ELSE closestRow(rows, Len(rows), indicator.SpreadsheetRow),
              found |-> TRUE]
        ELSE IF indicator.SpreadsheetRow > 0
        THEN [row |-> indicator.SpreadsheetRow, found |-> TRUE]
        ELSE [row |-> 0, found |-> FALSE]

\* KPIData with the readings at their zero value.
ZeroKPI(indicator) ==
    [IndicatorCode |-> indicator.Code, Department |-> indicator.Department,
     Name |-> indicator.Name, Target |-> Zero, Performance |-> Zero,
     Percentage |-> Zero, IsInverse |-> indicator.IsInverse]

parseKPIRow(values, indicator, targetIdx, percentIdx, perfIdx) ==
    IF Len(values) = 0 \/ Len(values[1]) = 0 THEN ZeroKPI(indicator)
    ELSE LET row == values[1]
             rowLen == Len(row)
             At(idx) == IF rowLen > idx THEN parseFloat(row[idx + 1]) ELSE Zero
         IN  [ZeroKPI(indicator) EXCEPT !.Target = At(targetIdx),
                                        !.Percentage = At(percentIdx),
                                        !.Performance = At(perfIdx)]

\* The loop that builds activeIndicators: active, and its row is found.
ActiveIndicators(l, indicators) ==
    LET Take(ind) == ind.IsActive /\ getIndicatorRow(l, ind).found
    IN  SelectSeq(indicators, Take)

\* The ranges "<sheet>!A<row>:<lastColLetter><row>", one per active indicator.
Ranges(l, active, lastColLetter) ==
    [i \in 1..Len(active) |->
        [row |-> getIndicatorRow(l, active[i]).row, lastCol |-> lastColLetter]]

\* What the sheets API gives for one range: no row when the row is empty or
\* past the end of the sheet, else the cells of the row up to the last column.
ReadRange(data, rg) ==
    IF rg.row > Len(data) \/ Len(data[rg.row]) = 0 THEN <<>>
    ELSE LET row == data[rg.row]
             last == colToIndex(rg.lastCol) + 1
         IN  << SubSeq(row, 1, IF Len(row) < last THEN Len(row) ELSE last) >>

\* resp.ValueRanges of Spreadsheets.Values.BatchGet: one entry per range.
BatchGet(data, ranges) == [i \in 1..Len(ranges) |-> ReadRange(data, ranges[i])]

\* A failed batch read that returns nothing.
BatchFailureData_Empty(active) == <<>>

\* The default data returned when the batch read fails.
BatchFailureData(active) == [i \in 1..Len(active) |-> ZeroKPI(active[i])]

\* The loop over resp.ValueRanges with the indicators taken from the last one.
ParseBatch_Reversed(valueRanges, active, targetIdx, percentIdx, perfIdx) ==
    LET n == IF Len(valueRanges) < Len(active) THEN Len(valueRanges) ELSE Len(active)
    IN  [i \in 1..n |->
            parseKPIRow(valueRanges[i], active[Len(active) + 1 - i],
                        targetIdx, percentIdx, perfIdx)]

\* The loop over resp.ValueRanges.
ParseBatch(valueRanges, active, targetIdx, percentIdx, perfIdx) ==
    LET n == IF Len(valueRanges) < Len(active) THEN Len(valueRanges) ELSE Len(active)
    IN  [i \in 1..n |->
            parseKPIRow(valueRanges[i], active[i], targetIdx, percentIdx, perfIdx)]

Max3(a, b, c) ==
    LET ab == IF b > a THEN b ELSE a IN IF c > ab THEN c ELSE ab

(***************************************************************************)
(* DashboardService.GetDashboardData, run by goroutine 1.                  *)
(***************************************************************************)
NoResp == [isNil |-> TRUE]

\* No call of a state-free function is under way.
NoOut == [none |-> TRUE]
CalcNone == [fn |-> "none", in |-> NoOut, out |-> NoOut, done |-> FALSE]

DashIdle ==
    [pc |-> "idle", month |-> 0, year |-> 0, inds |-> <<>>, kpi |-> <<>>,
     ranges |-> <<>>, fetchErr |-> None, batch |-> "none", resp |-> NoResp,
     err |-> None]

DashMonths == {5, 6}
DashDays == {15, 31}
DashYears == {2025, 2026}

\* WHERE is_active = true ORDER BY display_order
ActiveOf(table) == LET Active(ind) == ind.IsActive IN SelectSeq(table, Active)

\* The entry of GetDashboardData: the query for the indicators, then the test
\* of the year; FetchKPIData starts with its call of GetLayout.
GetDashboardData_Start ==
    /\ dash.pc \in {"idle", "done"}
    /\ pc[1] = "idle"
    /\ \E month \in DashMonths, year \in DashYears, dbOk \in BOOLEAN :
         dash' = IF ~dbOk
                 THEN [DashIdle EXCEPT !.pc = "done", !.month = month,
                                       !.year = year, !.err = "find failed"]
                 ELSE [DashIdle EXCEPT
                         !.pc = IF year = config.SpreadsheetYear
                                THEN "layout" ELSE "compute",
                         !.month = month, !.year = year,
                         !.inds = ActiveOf(catalog)]
    /\ ret' = RetNone
    /\ UNCHANGED <<sheet, config, now, layout, readers, writer, pc, forced>>
    /\ UNCHANGED <<snapshots, sv, catalog, today, calc>>

\* FetchKPIData once GetLayout has returned: the month's columns, the client,
\* the ranges, the batch read and its parsing.
FetchKPIData_Batch ==
    /\ dash.pc = "layout"
    /\ pc[1] = "idle"
    /\ ret.path # ""
    /\ \E clientOk \in BOOLEAN, batchOk \in BOOLEAN :
         LET l == ret.layout
             monthCols == l.MonthColumns[dash.month]
             targetIdx == monthCols[1]
             percentIdx == monthCols[3]
             perfIdx == monthCols[4]
             lastColLetter == indexToCol(Max3(targetIdx, percentIdx, perfIdx))
             active == ActiveIndicators(l, dash.inds)
             ranges == Ranges(l, active, lastColLetter)
             Out(kpi, e, batch, rgs) ==
                 dash' = [dash EXCEPT !.pc = "compute", !.kpi = kpi,
                                      !.fetchErr = e, !.batch = batch,
                                      !.ranges = rgs]
         IN  IF ret.err # None
             THEN Out(<<>>, "failed to get layout", "none", <<>>)
             ELSE IF dash.month \notin DOMAIN l.MonthColumns
             THEN Out(<<>>, "month not found in discovered layout", "none", <<>>)
             ELSE IF ~clientOk
             THEN Out(<<>>, "failed to get valid token", "none", <<>>)
             ELSE IF Len(ranges) = 0
             THEN Out(<<>>, None, "empty", ranges)
             ELSE IF ~batchOk
             THEN Out(BatchFailureData(active), None, "failed", ranges)
             ELSE Out(ParseBatch(BatchGet(sheet.data, ranges), active,
                                 targetIdx, percentIdx, perfIdx), None, "ok", ranges)
    /\ UNCHANGED cacheVars
    /\ UNCHANGED <<snapshots, sv, catalog, today, calc>>

Hundred == Whole(100)

\* The status with the bounds of the normal table made inclusive.
calculateStatus_Inclusive(percentage, isInverse) ==
    IF isInverse
    THEN IF RatLeq(Hundred, percentage) THEN "red"
         ELSE IF RatLeq(Whole(85), percentage) THEN "yellow"
         ELSE IF RatLeq(Whole(55), percentage) THEN "green"
         ELSE "supergreen"
    ELSE IF RatLeq(Hundred, percentage) THEN "supergreen"
         ELSE IF RatLeq(Whole(85), percentage) THEN "green"
         ELSE IF RatLeq(Whole(55), percentage) THEN "yellow"
         ELSE "red"

calculateStatus(percentage, isInverse) ==
    IF isInverse
    THEN IF RatLeq(Hundred, percentage) THEN "red"
         ELSE IF RatLeq(Whole(85), percentage) THEN "yellow"
         ELSE IF RatLeq(Whole(55), percentage) THEN "green"
         ELSE "supergreen"
    ELSE IF RatLess(Hundred, percentage) THEN "supergreen"
         ELSE IF RatLess(Whole(85), percentage) THEN "green"
         ELSE IF RatLess(Whole(55), percentage) THEN "yellow"
         ELSE "red"

\* The percentage with a floor at zero next to the cap.
CalculatedPercentage_Floored(kpiData) ==
    LET raw == IF kpiData.Target # Zero
               THEN RatMul(RatDiv(kpiData.Performance, kpiData.Target), Hundred)
               ELSE Zero
    IN  IF RatLess(Whole(999), raw) THEN Whole(999)
        ELSE IF RatLess(raw, Zero) THEN Zero ELSE raw

\* calculatedPercentage of GetDashboardData, with its cap.
CalculatedPercentage(kpiData) ==
    LET raw == IF kpiData.Target # Zero
               THEN RatMul(RatDiv(kpiData.Performance, kpiData.Target), Hundred)
               ELSE Zero
    IN  IF RatLess(Whole(999), raw) THEN Whole(999) ELSE raw

\* The most recent rows first: the rows of table for (month, year) whose
\* snapshot_date no other such row of the same indicator exceeds.
LatestOf(table, month, year, code) ==
    LET Mine(r) == r.Month = month /\ r.Year = year /\ r.IndicatorID = code
        mine == SelectSeq(table, Mine)
        Newest(r) == \A k \in 1..Len(mine) : mine[k].SnapshotDate <= r.SnapshotDate
    IN  SelectSeq(mine, Newest)

\* getPreviousWeekSnapshots: for each indicator with a row for (month, year),
\* the percentage of its first row in ORDER BY snapshot_date DESC.  The tables
\* drawn below hold one row per indicator and snapshot_date.
getPreviousWeekSnapshots(table, month, year) ==
    LET codes == {table[k].IndicatorID : k \in
                     {j \in 1..Len(table) : table[j].Month = month /\ table[j].Year = year}}
    IN  [c \in codes |-> LatestOf(table, month, year, c)[1].Percentage]

Half == Rat(1, 2)
MinusHalf == Rat(-1, 2)

\* The week-over-week change with the bounds of the dead zone counted out of it.
calculateWoWChange_Inclusive(indicatorCode, currentPercentage, prevSnapshots) ==
    IF indicatorCode \notin DOMAIN prevSnapshots \/ prevSnapshots[indicatorCode] = Zero
    THEN [change |-> Zero, direction |-> "neutral"]
    ELSE LET change == RatSub(currentPercentage, prevSnapshots[indicatorCode])
         IN  [change |-> change,
              direction |-> IF RatLeq(Half, change) THEN "up"
                            ELSE IF RatLeq(change, MinusHalf) THEN "down"
                            ELSE "neutral"]

calculateWoWChange(indicatorCode, currentPercentage, prevSnapshots) ==
    IF indicatorCode \notin DOMAIN prevSnapshots \/ prevSnapshots[indicatorCode] = Zero
    THEN [change |-> Zero, direction |-> "neutral"]
    ELSE LET change == RatSub(currentPercentage, prevSnapshots[indicatorCode])
         IN  [change |-> change,
              direction |-> IF RatLess(Half, change) THEN "up"
                            ELSE IF RatLess(change, MinusHalf) THEN "down"
                            ELSE "neutral"]

\* time.Date(year, time.Month(month+1), 0, ...).Day() for month in 1..12.
daysInMonth(month, year) ==
    IF month \in {4, 6, 9, 11} THEN 30
    ELSE IF month # 2 THEN 31
    ELSE IF year % 4 = 0 /\ (year % 100 # 0 \/ year % 400 = 0) THEN 29
    ELSE 28

\* math.Round: to the nearest integer, halves away from zero.
Round(r) ==
    LET q == (2 * Abs(r.n) + r.d) \div (2 * r.d)
    IN  IF r.n < 0 THEN -q ELSE q

\* math.Round(x*scale) / scale
RoundTo(r, scale) == Rat(Round(RatMul(r, Whole(scale))), scale)

\* The variance with the formula of normal metrics used for inverse ones too.
calculateVariance_OneFormula(target, actual, isInverse, month, year, currentDay) ==
    LET progressRatio == Rat(currentDay, daysInMonth(month, year))
        expectedProgress == RatMul(target, progressRatio)
        raw == RatMul(RatDiv(RatSub(actual, expectedProgress), expectedProgress), Hundred)
        variance == RoundTo(raw, 10)
    IN  IF target = Zero
        THEN [expectedProgress |-> Zero, variance |-> Zero,
              scheduleStatus |-> "on_schedule"]
        ELSE IF expectedProgress = Zero
        THEN [expectedProgress |-> expectedProgress, variance |-> Zero,
              scheduleStatus |-> "on_schedule"]
        ELSE [expectedProgress |-> RoundTo(expectedProgress, 100),
              variance |-> variance,
              scheduleStatus |-> IF RatLess(Whole(5), variance) THEN "ahead"
                                 ELSE IF RatLess(variance, Whole(-5)) THEN "behind"
                                 ELSE "on_schedule"]

\* calculateVariance, currentDay being time.Now().Day().
calculateVariance(target, actual, isInverse, month, year, currentDay) ==
    LET progressRatio == Rat(currentDay, daysInMonth(month, year))
        expectedProgress == RatMul(target, progressRatio)
        raw == IF isInverse
               THEN RatMul(RatDiv(RatSub(expectedProgress, actual), expectedProgress), Hundred)
               ELSE RatMul(RatDiv(RatSub(actual, expectedProgress), expectedProgress), Hundred)
        variance == RoundTo(raw, 10)
    IN  IF target = Zero
        THEN [expectedProgress |-> Zero, variance |-> Zero,
              scheduleStatus |-> "on_schedule"]
        ELSE IF expectedProgress = Zero
        THEN [expectedProgress |-> expectedProgress, variance |-> Zero,
              scheduleStatus |-> "on_schedule"]
        ELSE [expectedProgress |-> RoundTo(expectedProgress, 100),
              variance |-> variance,
              scheduleStatus |-> IF RatLess(Whole(5), variance) THEN "ahead"
                                 ELSE IF RatLess(variance, Whole(-5)) THEN "behind"
                                 ELSE "on_schedule"]

\* inverseMap[code] of calculateWeeklyTrend: false for a code of no indicator.
InverseOf(indicators, code) ==
    \E k \in 1..Len(indicators) :
        indicators[k].Code = code /\ indicators[k].IsInverse

\* calculateWeeklyTrend over the table and the indicators as they are read;
\* firstOk is whether the First query went through.
\* The trend with every row of the batch classified as a normal metric.
calculateWeeklyTrend_NoInverse(table, indicators, month, year, currentPercentage, firstOk) ==
    LET Mine(r) == r.Month = month /\ r.Year = year
        mine == SelectSeq(table, Mine)
        lastDate == SetMax({mine[k].SnapshotDate : k \in 1..Len(mine)})
        Last(r) == r.SnapshotDate = lastDate
        snaps == SelectSeq(table, Last)
        prevGreenCount ==
            Cardinality({k \in 1..Len(snaps) :
                calculateStatus(snaps[k].Percentage, FALSE) \in {"green", "supergreen"}})
        prevOverallPercentage == RatMul(Rat(prevGreenCount, Len(snaps)), Hundred)
        change == RatSub(currentPercentage, prevOverallPercentage)
    IN  IF ~firstOk \/ Len(mine) = 0
        THEN [change |-> Zero, direction |-> "neutral", prevGreenCount |-> 0]
        ELSE [change |-> change,
              direction |-> IF RatLess(Half, change) THEN "up"
                            ELSE IF RatLess(change, MinusHalf) THEN "down"
                            ELSE "neutral",
              prevGreenCount |-> prevGreenCount]

calculateWeeklyTrend(table, indicators, month, year, currentPercentage, firstOk) ==
    LET Mine(r) == r.Month = month /\ r.Year = year
        mine == SelectSeq(table, Mine)
        lastDate == SetMax({mine[k].SnapshotDate : k \in 1..Len(mine)})
        Last(r) == r.SnapshotDate = lastDate
        snaps == SelectSeq(table, Last)
        prevGreenCount ==
            Cardinality({k \in 1..Len(snaps) :
                calculateStatus(snaps[k].Percentage,
                                InverseOf(indicators, snaps[k].IndicatorID))
                    \in {"green", "supergreen"}})
        prevOverallPercentage == RatMul(Rat(prevGreenCount, Len(snaps)), Hundred)
        change == RatSub(currentPercentage, prevOverallPercentage)
    IN  IF ~firstOk \/ Len(mine) = 0
        THEN [change |-> Zero, direction |-> "neutral", prevGreenCount |-> 0]
        ELSE [change |-> change,
              direction |-> IF RatLess(Half, change) THEN "up"
                            ELSE IF RatLess(change, MinusHalf) THEN "down"
                            ELSE "neutral",
              prevGreenCount |-> prevGreenCount]

\* The IndicatorResponse built from one KPIData.
IndicatorResponseOf(kpiData, prevSnapshots, month, year, currentDay) ==
    LET pct == CalculatedPercentage(kpiData)
        wow == calculateWoWChange(kpiData.IndicatorCode, pct, prevSnapshots)
        var == calculateVariance(kpiData.Target, kpiData.Performance,
                                 kpiData.IsInverse, month, year, currentDay)
    IN  [Code |-> kpiData.IndicatorCode, Department |-> kpiData.Department,
         Name |-> kpiData.Name, Target |-> kpiData.Target,
         Performance |-> kpiData.Performance,
         Percentage |-> pct,
         Status |-> calculateStatus(pct, kpiData.IsInverse),
         IsInverse |-> kpiData.IsInverse,
         WowChange |-> wow.change, WowDirection |-> wow.direction,
         ExpectedProgress |-> var.expectedProgress, Variance |-> var.variance,
         ScheduleStatus |-> var.scheduleStatus]

CountStatus(inds, statuses) ==
    Cardinality({i \in 1..Len(inds) : inds[i].Status \in statuses})

\* The aggregation with supergreen left out of the green count.
OverallOf_GreenOnly(inds) ==
    LET greenCount == CountStatus(inds, {"green"})
        yellowCount == CountStatus(inds, {"yellow"})
        redCount == CountStatus(inds, {"red"})
        totalIndicators == greenCount + yellowCount + redCount
        overallPercentage == IF totalIndicators > 0
                             THEN RatMul(Rat(greenCount, totalIndicators), Hundred)
                             ELSE Zero
    IN  [Percentage |-> overallPercentage,
         Status |-> IF RatLess(Whole(85), overallPercentage) THEN "green"
                    ELSE IF RatLess(Whole(55), overallPercentage) THEN "yellow"
                    ELSE "red",
         GreenCount |-> greenCount, YellowCount |-> yellowCount,
         RedCount |-> redCount]

OverallOf(inds) ==
    LET greenCount == CountStatus(inds, {"green", "supergreen"})
        yellowCount == CountStatus(inds, {"yellow"})
        redCount == CountStatus(inds, {"red"})
        totalIndicators == greenCount + yellowCount + redCount
        overallPercentage == IF totalIndicators > 0
                             THEN RatMul(Rat(greenCount, totalIndicators), Hundred)
                             ELSE Zero
    IN  [Percentage |-> overallPercentage,
         Status |-> IF RatLess(Whole(85), overallPercentage) THEN "green"
                    ELSE IF RatLess(Whole(55), overallPercentage) THEN "yellow"
                    ELSE "red",
         GreenCount |-> greenCount, YellowCount |-> yellowCount,
         RedCount |-> redCount]

ScheduleCount(inds, status) ==
    Cardinality({i \in 1..Len(inds) : inds[i].ScheduleStatus = status})

\* The DashboardResponse of GetDashboardData for the list FetchKPIData left.
ResponseOf(kpi, table, indicators, month, year, currentDay, firstOk) ==
    LET prevSnapshots == getPreviousWeekSnapshots(table, month, year)
        inds == [i \in 1..Len(kpi) |->
                    IndicatorResponseOf(kpi[i], prevSnapshots, month, year, currentDay)]
        overall == OverallOf(inds)
        trend == calculateWeeklyTrend(table, indicators, month, year,
                                      overall.Percentage, firstOk)
    IN  [isNil |-> FALSE, Month |-> month, Year |-> year,
         OverallPerformance |-> overall,
         WeeklyTrend |-> [Change |-> trend.change, Direction |-> trend.direction,
                          GreenCountChange |-> overall.GreenCount - trend.prevGreenCount],
         ScheduleSummary |-> [AheadCount |-> ScheduleCount(inds, "ahead"),
                              OnScheduleCount |-> ScheduleCount(inds, "on_schedule"),
                              BehindCount |-> ScheduleCount(inds, "behind")],
         Indicators |-> inds]

\* The rest of GetDashboardData: the error of FetchKPIData was logged and the
\* list it left is used; the response is returned with a nil error.
GetDashboardData_Compute ==
    /\ dash.pc = "compute"
    /\ \E firstOk \in BOOLEAN :
         dash' = [dash EXCEPT
                    !.pc = "done",
                    !.resp = ResponseOf(dash.kpi, snapshots, catalog, dash.month,
                                        dash.year, today, firstOk),
                    !.err = None]
    /\ UNCHANGED cacheVars
    /\ UNCHANGED <<snapshots, sv, catalog, today, calc>>

\* FetchKPIData's call of GetLayout: the only way in for this goroutine.
FetchKPIData_GetLayout ==
    /\ dash.pc = "layout"
    /\ ret.path = ""
    /\ GetLayout_RLock(1)

\* Rows of table indicators.
IndRevenue ==
    [Code |-> "KPI-01", Department |-> "FINANCE", Name |-> "Revenue Group",
     SpreadsheetName |-> <<"R","e","v","e","n","u","e">>, SpreadsheetRow |-> 2,
     IsInverse |-> FALSE, IsActive |-> TRUE]
IndCsat ==
    [Code |-> "KPI-09", Department |-> "DELIVERY", Name |-> "Customer Satisfaction",
     SpreadsheetName |-> <<" ","C","S","A","T">>, SpreadsheetRow |-> 5,
     IsInverse |-> FALSE, IsActive |-> TRUE]
IndTurnOver ==
    [Code |-> "KPI-10", Department |-> "HC", Name |-> "Turn Over",
     SpreadsheetName |-> <<"T","u","r","n"," ","O","v","e","r">>, SpreadsheetRow |-> 0,
     IsInverse |-> TRUE, IsActive |-> TRUE]
IndUptime ==
    [Code |-> "KPI-06", Department |-> "IT OPERATIONS", Name |-> "System Uptime",
     SpreadsheetName |-> <<>>, SpreadsheetRow |-> 4,
     IsInverse |-> TRUE, IsActive |-> TRUE]
IndOld ==
    [Code |-> "KPI-12", Department |-> "TA", Name |-> "PS Talents Placement",
     SpreadsheetName |-> <<"R","e","v","e","n","u","e">>, SpreadsheetRow |-> 2,
     IsInverse |-> FALSE, IsActive |-> FALSE]

\* Table weekly_snapshots as an earlier week left it.
DashTables ==
    { <<>>,
      << MkSnapshot(IndResp("KPI-01", Whole(80)), 0, 5, 2026, 1),
         MkSnapshot(IndResp("KPI-06", Whole(90)), 0, 5, 2026, 1) >> }

Catalogs ==
    { <<IndRevenue, IndCsat>>,
      <<IndRevenue, IndTurnOver, IndUptime>>,
      <<IndTurnOver>>,
      <<IndOld, IndRevenue>> }

(***************************************************************************)
(* Calls of the functions that touch no state, one call per behaviour.     *)
(***************************************************************************)
Call(fn, in) == [fn |-> fn, in |-> in, out |-> NoOut, done |-> FALSE]

\* calc with the result of its call.
Done(out) ==
    /\ calc' = [calc EXCEPT !.out = out, !.done = TRUE]
    /\ UNCHANGED <<sheet, config, now, layout, readers, writer, pc, ret, forced>>
    /\ UNCHANGED <<snapshots, sv, catalog, dash, today>>

\* Column C as discoverRows may read it, and the indicators looked up in it.
ColumnLen == 4
LabelCells == {<<>>, <<Str(<<" ","c","s","a","t"," ">>)>>, <<Str(<<"R","e","v","e","n","u","e">>)>>}
Columns == [1..ColumnLen -> LabelCells]
ResolveNames == {<<>>, <<"C","S","A","T">>, <<"T","u","r","n"," ","O","v","e","r">>}
ResolveRows == {-1, 0, 1, 3, 4, 6}

ResolveInputs ==
    {[labels |-> c,
      indicator |-> [IndCsat EXCEPT !.SpreadsheetName = n, !.SpreadsheetRow = r]] :
        c \in Columns, n \in ResolveNames, r \in ResolveRows}

\* getIndicatorRow on the layout discovered from the column.
Calc_getIndicatorRow ==
    /\ calc.fn = "getIndicatorRow"
    /\ ~calc.done
    /\ LET l == MkLayout(<<>>, discoverRows(RespOk(calc.in.labels)).rows, 0,
                         config.SpreadsheetID)
       IN  Done(getIndicatorRow(l, calc.in.indicator))

\* Percentages at, just under and just over the bounds of the status tables.
StatusPercentages ==
    { Whole(-10), Zero, Rat(5499, 100), Whole(55), Rat(5501, 100),
      Rat(8499, 100), Whole(85), Rat(8501, 100), Rat(9999, 100), Hundred,
      Rat(10001, 100), Whole(120), Whole(999) }

StatusInputs ==
    {[percentage |-> p, isInverse |-> i] : p \in StatusPercentages, i \in BOOLEAN}

Calc_calculateStatus ==
    /\ calc.fn = "calculateStatus"
    /\ ~calc.done
    /\ Done([status |-> calculateStatus(calc.in.percentage, calc.in.isInverse)])

\* Readings whose quotient is zero, negative, under and over the cap.
PercentTargets == {Zero, Whole(10), Hundred, Whole(-10), Rat(1, 10)}
PercentActuals == {Zero, Whole(5), Whole(12), Whole(-5), Whole(1000), Rat(999, 10)}

PercentInputs ==
    {[ZeroKPI(ind) EXCEPT !.Target = t, !.Performance = a] :
        ind \in {IndRevenue, IndTurnOver}, t \in PercentTargets, a \in PercentActuals}

Calc_CalculatedPercentage ==
    /\ calc.fn = "calculatedPercentage"
    /\ ~calc.done
    /\ Done([percentage |-> CalculatedPercentage(calc.in)])

\* Tables of earlier snapshots of KPI-01 and KPI-02 for May 2026 and April.
Snap(code, pct, date, month) == MkSnapshot(IndResp(code, pct), date, month, 2026, 1)

WowTables ==
    { <<>>,
      << Snap("KPI-01", Whole(50), 1, 5) >>,
      << Snap("KPI-01", Zero, 1, 5) >>,
      << Snap("KPI-01", Whole(50), 1, 5), Snap("KPI-01", Whole(70), 2, 5) >>,
      << Snap("KPI-01", Whole(70), 2, 5), Snap("KPI-01", Whole(50), 1, 5) >>,
      << Snap("KPI-02", Whole(50), 1, 5) >>,
      << Snap("KPI-01", Whole(50), 1, 4) >>,
      << Snap("KPI-01", Whole(50), 1, 5), Snap("KPI-01", Zero, 2, 5) >> }

WowCurrents ==
    { Zero, Rat(4949, 100), Rat(495, 10), Whole(50), Rat(505, 10), Rat(5051, 100),
      Whole(70), Whole(80), Whole(-20) }

WowInputs ==
    {[code |-> "KPI-01", current |-> c, table |-> t, month |-> 5, year |-> 2026] :
        c \in WowCurrents, t \in WowTables}

Calc_calculateWoWChange ==
    /\ calc.fn = "calculateWoWChange"
    /\ ~calc.done
    /\ Done(calculateWoWChange(calc.in.code, calc.in.current,
               getPreviousWeekSnapshots(calc.in.table, calc.in.month, calc.in.year)))

\* Targets, actuals and dates around the bands of the schedule status.
VarianceTargets == {Zero, Hundred, Whole(30), Whole(-100)}
VarianceActuals ==
    { Zero, Whole(90), Whole(50), Rat(5252, 100), Rat(525, 10), Rat(526, 10),
      Rat(474, 10), Rat(4748, 100), Rat(475, 10) }
VarianceMonths == {2, 4, 5}
VarianceYears == {2024, 2026}
VarianceDays == {1, 15, 30, 31}

VarianceInputs ==
    {[target |-> t, actual |-> a, isInverse |-> i, month |-> m, year |-> y,
      currentDay |-> d] :
        t \in VarianceTargets, a \in VarianceActuals, i \in BOOLEAN,
        m \in VarianceMonths, y \in VarianceYears, d \in VarianceDays}

Calc_calculateVariance ==
    /\ calc.fn = "calculateVariance"
    /\ ~calc.done
    /\ Done(calculateVariance(calc.in.target, calc.in.actual, calc.in.isInverse,
                              calc.in.month, calc.in.year, calc.in.currentDay))

\* Lists of readings with up to MaxPerStatus metrics of each status.
MaxPerStatus == 3

Reading(performance) ==
    [ZeroKPI(IndRevenue) EXCEPT !.Target = Hundred,
                                !.Performance = Whole(performance)]

\* n readings at the given performance.
Readings(n, performance) == [i \in 1..n |-> Reading(performance)]

AggregateInputs ==
    {[supergreen |-> sg, green |-> g, yellow |-> y, red |-> r,
      kpi |-> Readings(sg, 120) \o Readings(g, 90)
                \o Readings(y, 70) \o Readings(r, 40)] :
        sg \in 0..MaxPerStatus, g \in 0..MaxPerStatus,
        y \in 0..MaxPerStatus, r \in 0..MaxPerStatus}

\* The loop of GetDashboardData over the readings and the overall performance.
Calc_OverallOf ==
    /\ calc.fn = "overallPerformance"
    /\ ~calc.done
    /\ LET inds == [i \in 1..Len(calc.in.kpi) |->
                       IndicatorResponseOf(calc.in.kpi[i], <<>>, 5, 2026, today)]
       IN  Done(OverallOf(inds))

\* Tables whose batches each carry a snapshot_date of their own, and the
\* indicators they are classified with.
TrendTables ==
    { <<>>,
      << Snap("KPI-01", Whole(90), 1, 5), Snap("KPI-10", Whole(90), 1, 5) >>,
      << Snap("KPI-01", Whole(90), 1, 5), Snap("KPI-09", Whole(90), 1, 5),
         Snap("KPI-01", Whole(40), 2, 5), Snap("KPI-10", Whole(40), 2, 5) >>,
      << Snap("KPI-01", Whole(90), 1, 4) >>,
      << Snap("KPI-01", Whole(90), 1, 5), Snap("KPI-01", Whole(40), 2, 4),
         Snap("KPI-10", Whole(40), 2, 4) >>,
      << Snap("KPI-99", Whole(90), 1, 5), Snap("KPI-10", Whole(60), 1, 5),
         Snap("KPI-06", Whole(100), 1, 5) >> }

TrendCurrents ==
    { Zero, Rat(4949, 100), Rat(495, 10), Whole(50), Rat(505, 10), Rat(5051, 100),
      Hundred, Rat(200, 3) }

TrendIndicators == {<<IndRevenue, IndCsat, IndTurnOver, IndUptime>>, <<IndRevenue>>}

TrendInputs ==
    {[table |-> t, indicators |-> inds, month |-> 5, year |-> 2026, current |-> c,
      firstOk |-> ok] :
        t \in TrendTables, inds \in TrendIndicators, c \in TrendCurrents,
        ok \in BOOLEAN}

Calc_calculateWeeklyTrend ==
    /\ calc.fn = "calculateWeeklyTrend"
    /\ ~calc.done
    /\ Done(calculateWeeklyTrend(calc.in.table, calc.in.indicators, calc.in.month,
                                 calc.in.year, calc.in.current, calc.in.firstOk))

\* Cells of every kind: nil, numbers, another type, and texts that are
\* grouped, signed, padded, malformed, or no decimal notation at all.
ParseCells ==
    { Nil, Other, Num(Whole(7)), Num(Rat(-5, 2)), Num(Zero),
      Str(<<"1",",","2","3","4",".","5","%">>),
      Str(<<"-">>),
      Str(<<>>),
      Str(<<" "," ">>),
      Str(<<" ","1","2"," ">>),
      Str(<<"a","b","c">>),
      Str(<<"1",".","2",".","3">>),
      Str(<<"-","5">>),
      Str(<<"+","5">>),
      Str(<<".","5">>),
      Str(<<"5",".">>),
      Str(<<"1","e","3">>),
      Str(<<"2","5","E","-","1">>),
      Str(<<"1","e">>),
      Str(<<"e","3">>),
      Str(<<"-","-","5">>),
      Str(<<"N","a","N">>),
      Str(<<"i","n","f">>),
      Str(<<"-","I","n","f","i","n","i","t","y">>),
      Str(<<"+","n","a","n">>),
      Str(<<"n","/","a">>),
      Str(<<"%">>),
      Str(<<"1"," ","2","3","4">>),
      Str(<<"1","2","a","b","c">>),
      Str(<<"0">>),
      Str(<<"-"," ","5">>),
      Str(<<"-","%">>),
      Str(<<"9","0","%">>),
      Str(<<"1",",","0","0","0">>),
      Str(<<"i","n","f","i","n","i","t">>) }

Calc_parseFloat ==
    /\ calc.fn = "parseFloat"
    /\ ~calc.done
    /\ Done([value |-> parseFloat(calc.in.val)])

\* Header rows of up to MaxHeader cells: month headers of the four shapes in
\* several spellings, near misses, other texts and a number.
MaxHeader == 3

HeaderCells ==
    { Str(<<" ","M","A","Y"," ","t","a","r","g","e","t"," ">>),
      Str(<<"M","a","y"," ","T","a","r","g","e","t">>),
      Str(<<"M","a","y"," ","L","a","g","g","i","n","g">>),
      Str(<<"%"," ","M","a","y"," ","P","e","r","f","o","r","m","a","n","c","e">>),
      Str(<<"%"," "," ","j","u","n","e"," "," ","P","E","R","F","O","R","M","A","N","C","E">>),
      Str(<<"m","a","y">>),
      Str(<<"J","u","n","e">>),
      Str(<<"j","u","n","e"," ","l","a","g","g","i","n","g">>),
      Str(<<"M","a","y","o">>),
      Str(<<"M","a","y"," ","T","a","r","g","e","t","s">>),
      Str(<<"%","M","a","y"," ","P","e","r","f","o","r","m","a","n","c","e">>),
      Str(<<"J","u","n","e"," "," ","T","a","r","g","e","t">>),
      Str(<<"K","P","I">>),
      Str(<<>>),
      Num(Whole(5)) }

HeaderRows == UNION {[1..n -> HeaderCells] : n \in 1..MaxHeader}

Calc_discoverColumns ==
    /\ calc.fn = "discoverColumns"
    /\ ~calc.done
    /\ Done(discoverColumns(RespOk(<<calc.in.row>>)))

(***************************************************************************)
(* The layout cache under concurrent callers.                              *)
(***************************************************************************)
Config0 ==
    [SpreadsheetID |-> "sheet-1", SheetName |-> "KPI 2026", SpreadsheetYear |-> 2026]

Init ==
    /\ sheet \in Sheets
    /\ config = Config0
    /\ now = 0
    /\ layout = NilLayout
    /\ readers = {}
    /\ writer = 0
    /\ pc = [p \in Procs |-> "idle"]
    /\ ret = RetNone
    /\ forced = "no"
    /\ snapshots = <<>>
    /\ sv = [p \in Savers |-> SvIdle]
    /\ catalog = <<>>
    /\ dash = DashIdle
    /\ today = 15
    /\ calc = CalcNone

Next ==
    \/ \E p \in Procs : GetLayout_RLock(p)
    \/ \E p \in Procs : GetLayout_FastPath(p)
    \/ \E p \in Procs : GetLayout_Lock(p)
    \/ \E p \in Procs : GetLayout_Locked(p)
    \/ \E p \in Procs : GetLayout_DoubleCheck(p)
    \/ \E p \in Procs : GetLayout_CreateClient(p)
    \/ \E p \in Procs : GetLayout_Discover(p)
    \/ \E p \in Procs : InvalidateLayout_Lock(p)
    \/ \E p \in Procs : InvalidateLayout_Locked(p)
    \/ \E p \in Procs : InvalidateLayout_Clear(p)
    \/ Tick
    \/ EditSheet

Spec == Init /\ [][Next]_vars

\* The same callers with the scheduling the runtime gives them: a goroutine
\* that can take its next step takes it, every external call returns, and a
\* goroutine waiting in Lock gets the mutex (sync.Mutex hands the lock to a
\* waiter that has been starved).  A new call, the clock and the edits of the
\* sheet are under no obligation.  The step of the discovery is enabled exactly
\* while its caller is at it and always moves the caller on, so its weak
\* fairness is written on that condition: the caller is not at it for ever.
Fairness ==
    \A p \in Procs :
        /\ WF_vars(GetLayout_FastPath(p))
        /\ SF_vars(GetLayout_Lock(p))
        /\ WF_vars(GetLayout_Locked(p))
        /\ WF_vars(GetLayout_DoubleCheck(p))
        /\ WF_vars(GetLayout_CreateClient(p))
        /\ []<>(pc[p] # "gl_discover")
        /\ WF_vars(InvalidateLayout_Locked(p))
        /\ WF_vars(InvalidateLayout_Clear(p))

SpecLive == Init /\ [][Next]_vars /\ Fairness

(***************************************************************************)
(* One caller of the layout cache and an administrator who changes the     *)
(* spreadsheet settings between the calls.                                 *)
(***************************************************************************)
NextSettings ==
    \/ GetLayout_RLock(1)
    \/ GetLayout_FastPath(1)
    \/ GetLayout_Lock(1)
    \/ GetLayout_Locked(1)
    \/ GetLayout_DoubleCheck(1)
    \/ GetLayout_CreateClient(1)
    \/ GetLayout_Discover(1)
    \/ UpdateSpreadsheetSettings
    \/ Tick
    \/ EditSheet

SpecSettings == Init /\ [][NextSettings]_vars

(***************************************************************************)
(* The snapshot store under one caller: calls follow one another.          *)
(***************************************************************************)
InitSnap ==
    /\ sheet = SheetA
    /\ config = Config0
    /\ now = 0
    /\ layout = NilLayout
    /\ readers = {}
    /\ writer = 0
    /\ pc = [p \in Procs |-> "idle"]
    /\ ret = RetNone
    /\ forced = "no"
    /\ snapshots = <<>>
    /\ sv = [p \in Savers |-> SvIdle]
    /\ catalog = <<>>
    /\ dash = DashIdle
    /\ today = 15
    /\ calc = CalcNone

NextSnap ==
    \/ SaveSnapshot_Delete(1)
    \/ SaveSnapshot_Insert(1)
    \/ DeleteSnapshotWeek(1)

SpecSnap == InitSnap /\ [][NextSnap]_vars

(***************************************************************************)
(* The snapshot store under concurrent callers that all save week 1 of the *)
(* same month: the statements of the calls interleave, each statement      *)
(* being atomic in the database.                                           *)
(***************************************************************************)
NextSnapPar ==
    \/ \E p \in Savers : SaveSnapshot_Delete(p) /\ sv'[p].week = 1
    \/ \E p \in Savers : SaveSnapshot_Insert(p)

SpecSnapPar == InitSnap /\ [][NextSnapPar]_vars

(***************************************************************************)
(* One dashboard request after another, over a sheet that is edited.       *)
(***************************************************************************)
InitDash ==
    /\ sheet \in Sheets
    /\ config = Config0
    /\ now = 0
    /\ layout = NilLayout
    /\ readers = {}
    /\ writer = 0
    /\ pc = [p \in Procs |-> "idle"]
    /\ ret = RetNone
    /\ forced = "no"
    /\ snapshots \in DashTables
    /\ sv = [p \in Savers |-> SvIdle]
    /\ catalog \in Catalogs
    /\ dash = DashIdle
    /\ today \in DashDays
    /\ calc = CalcNone

NextDash ==
    \/ GetDashboardData_Start
    \/ FetchKPIData_GetLayout
    \/ GetLayout_FastPath(1)
    \/ GetLayout_Lock(1)
    \/ GetLayout_Locked(1)
    \/ GetLayout_DoubleCheck(1)
    \/ GetLayout_CreateClient(1)
    \/ GetLayout_Discover(1)
    \/ FetchKPIData_Batch
    \/ GetDashboardData_Compute
    \/ Tick
    \/ EditSheet

SpecDash == InitDash /\ [][NextDash]_vars

(***************************************************************************)
(* One call of a state-free function on arguments drawn at the start.      *)
(***************************************************************************)
CalcInputs ==
    {Call("getIndicatorRow", i) : i \in ResolveInputs}
      \cup {Call("calculateStatus", i) : i \in StatusInputs}
      \cup {Call("calculatedPercentage", i) : i \in PercentInputs}
      \cup {Call("calculateWoWChange", i) : i \in WowInputs}
      \cup {Call("calculateVariance", i) : i \in VarianceInputs}
      \cup {Call("overallPerformance", i) : i \in AggregateInputs}
      \cup {Call("calculateWeeklyTrend", i) : i \in TrendInputs}
      \cup {Call("parseFloat", [val |-> c]) : c \in ParseCells}
      \cup {Call("discoverColumns", [row |-> r]) : r \in HeaderRows}

InitCalc ==
    /\ sheet = SheetA
    /\ config = Config0
    /\ now = 0
    /\ layout = NilLayout
    /\ readers = {}
    /\ writer = 0
    /\ pc = [p \in Procs |-> "idle"]
    /\ ret = RetNone
    /\ forced = "no"
    /\ snapshots = <<>>
    /\ sv = [p \in Savers |-> SvIdle]
    /\ catalog = <<>>
    /\ dash = DashIdle
    /\ today = 15
    /\ calc \in CalcInputs

NextCalc ==
    \/ Calc_getIndicatorRow
    \/ Calc_calculateStatus
    \/ Calc_CalculatedPercentage
    \/ Calc_calculateWoWChange
    \/ Calc_calculateVariance
    \/ Calc_OverallOf
    \/ Calc_calculateWeeklyTrend
    \/ Calc_parseFloat
    \/ Calc_discoverColumns

SpecCalc == InitCalc /\ [][NextCalc]_vars

(***************************************************************************)
(* Claims about the layout cache (specification Spec).                     *)
(***************************************************************************)
\* A goroutine is inside the refresh round trip: client creation, then discovery.
Refreshing(p) == pc[p] \in {"gl_client", "gl_discover"}

\* The cache holds a snapshot younger than the freshness window.
CacheFresh == ~layout.isNil /\ now - layout.LastRefresh < FreshWindow

\* C1: under any interleaving of GetLayout and InvalidateLayout callers at
\* most one goroutine is inside the external discovery round trip, and it
\* holds the write lock with no reader inside.
C1_SingleFlight ==
    /\ Cardinality({p \in Procs : Refreshing(p)}) <= 1
    /\ \A p \in Procs : Refreshing(p) => writer = p /\ readers = {}

\* C1 witness: one caller is discovering while another waits for the lock.
C1_Witness ==
    \E p, q \in Procs : p # q /\ pc[p] = "gl_discover" /\ pc[q] = "gl_wantlock"

\* C2: a discovery round trip is only ever in progress while the cache is
\* Absent or Stale, so callers that queued behind a successful refresh do not
\* start a second one: a caller that finds the cache Fresh after acquiring the
\* exclusive section returns the stored snapshot, with no error, and leaves
\* the cache as it is.
C2_CollapsedRefresh ==
    /\ [](\A p \in Procs : Refreshing(p) => ~CacheFresh)
    /\ [][\A p \in Procs :
            (pc[p] = "gl_locked" /\ CacheFresh /\ pc'[p] # pc[p]) =>
                /\ pc'[p] = "idle"
                /\ ret'.layout = layout
                /\ ret'.err = None
                /\ layout' = layout]_vars

\* C2 witness: a caller came back through the double check with the snapshot
\* another caller had stored while it waited.
C2_Witness == ret.path = "dcheck" /\ ret.layout = layout /\ ~layout.isNil

\* C3: a successful refresh stores the snapshot it returns and leaves the
\* cache Fresh; a GetLayout call that reads the cache while it is Fresh returns
\* the stored snapshot at once, without entering the refresh section.
C3_FreshHit ==
    [][\A p \in Procs :
        /\ (pc[p] = "gl_discover" /\ ret'.path = "refreshed" /\ pc'[p] = "idle") =>
                layout' = ret'.layout /\ CacheFresh'
        /\ (pc[p] = "gl_rlocked" /\ CacheFresh /\ pc'[p] # pc[p]) =>
                /\ pc'[p] = "idle"
                /\ ret'.layout = layout
                /\ ret'.err = None
                /\ layout' = layout]_vars

\* C3 witness: a call returned the stored snapshot from the fast path while
\* the snapshot had a positive age.
C3_Witness ==
    /\ ret.path = "fresh"
    /\ ~layout.isNil
    /\ ret.layout = layout
    /\ now > layout.LastRefresh

\* C4: a refresh that fails leaves the cache untouched; it returns the
\* previous snapshot and no error if there is one, and otherwise the error
\* and no snapshot.
C4_StaleOnError ==
    [][\A p \in Procs :
        (Refreshing(p) /\ pc'[p] = "idle" /\ ret'.path # "refreshed") =>
            /\ layout' = layout
            /\ IF ~layout.isNil
               THEN ret'.layout = layout /\ ret'.err = None
               ELSE ret'.layout.isNil /\ ret'.err # None]_vars

\* C4 witness: a failed refresh served the cached snapshot.
C4_Witness == ret.path = "stale" /\ ret.layout = layout /\ ~CacheFresh

\* C5: from the moment InvalidateLayout has cleared the cache until a refresh
\* round trip has run, the cache is Absent and no GetLayout call returns from
\* the cache: the next call goes through the refresh section, whatever the age
\* of the dropped snapshot.
C5_InvalidateForcesRefresh ==
    /\ [](forced # "no" => layout.isNil)
    /\ [][\A p \in Procs :
            (pc[p] \in {"gl_rlocked", "gl_locked"} /\ pc'[p] = "idle") =>
                forced = "no"]_vars

\* C5 witness: a Fresh snapshot was invalidated and the next caller is in
\* the external discovery.
C5_Witness == forced = "young" /\ \E p \in Procs : pc[p] = "gl_discover"

(***************************************************************************)
(* Claims about the snapshot store (specification SpecSnap).               *)
(***************************************************************************)
\* The rows a completed SaveSnapshot call was asked to store.
Asked(c) == [k \in 1..Len(c.inds) |->
                MkSnapshot(c.inds[k], c.date, c.month, c.year, c.week)]

\* C7: once a SaveSnapshot call has returned success, the rows stored for
\* its (month, year, week) are exactly one row per indicator of that call,
\* whatever an earlier call stored for the key.
C7_Replacement ==
    \A p \in Savers :
        (sv[p].done /\ sv[p].err = None) =>
            RowsOfWeek(snapshots, sv[p].month, sv[p].year, sv[p].week) = Asked(sv[p])

\* C8: a SaveSnapshot call in which a persistence step failed, the delete
\* or an insert, returns an error.
C8_ErrorsPropagate ==
    \A p \in Savers : (sv[p].done /\ sv[p].failed) => sv[p].err # None

(***************************************************************************)
(* Claims about layout discovery (specification Spec).                     *)
(***************************************************************************)
\* C9: a discovery whose header read or whose read of the label column comes
\* back empty fails: the refresh that ran it stores nothing and ends on the
\* stale snapshot or on the error.
C9_EmptyReadsFail ==
    [][\A p \in Procs :
          ( /\ pc[p] = "gl_discover"
            /\ pc'[p] = "idle"
            /\ (sheet.header = <<>> \/ sheet.labels = <<>>) )
          => (layout' = layout /\ ret'.path \in {"stale", "error"})]_vars

(***************************************************************************)
(* Claims about the dashboard request (specification SpecDash).            *)
(***************************************************************************)
\* C6: a request whose layout could not be obtained, with no snapshot to fall
\* back on, ends with an error and not with a response.
C6_NoLayoutFails ==
    (dash.pc = "done" /\ ret.path = "error") => (dash.err # None /\ dash.resp.isNil)

\* The active indicators of the request whose row the returned layout resolves.
ResolvedOf(inds, l) ==
    LET Res(ind) == ind.IsActive /\ getIndicatorRow(l, ind).found
    IN  SelectSeq(inds, Res)

ZeroReadings(inds) ==
    [i \in 1..Len(inds) |->
        [IndicatorCode |-> inds[i].Code, Department |-> inds[i].Department,
         Name |-> inds[i].Name, Target |-> Zero, Performance |-> Zero,
         Percentage |-> Zero, IsInverse |-> inds[i].IsInverse]]

\* C10 as stated: after a failed batch read FetchKPIData has returned no error
\* and a zero reading for every active indicator it was given, in order.
C10_AllActiveZero ==
    dash.batch = "failed" =>
        /\ dash.fetchErr = None
        /\ dash.kpi = ZeroReadings(ActiveOf(dash.inds))

\* C10 amended: after a failed batch read FetchKPIData has returned no error
\* and a zero reading for every active indicator whose row resolved, in
\* the order given.
C10_ResolvedActiveZero ==
    dash.batch = "failed" =>
        /\ dash.fetchErr = None
        /\ dash.kpi = ZeroReadings(ResolvedOf(dash.inds, ret.layout))

C10_Witness ==
    /\ dash.batch = "failed"
    /\ Len(dash.kpi) >= 2
    /\ Len(dash.kpi) < Len(dash.inds)

(***************************************************************************)
(* Claims about the functions that touch no state (specification SpecCalc).*)
(***************************************************************************)
\* The rows of a column whose label, trimmed and in lower case, is key.
MatchingRows(labels, key) ==
    {k \in 1..Len(labels) :
        /\ Len(labels[k]) > 0
        /\ labels[k][1].kind = "string"
        /\ labels[k][1].s # <<>>
        /\ ToLower(TrimSpace(labels[k][1].s)) = key}

Resolved(c) ==
    /\ c.fn = "getIndicatorRow"
    /\ c.done
    /\ c.in.indicator.SpreadsheetName # <<>>

\* C11: a non-empty label matching several rows resolves to the matching row
\* nearest to the fallback row, the first such row of the column when two are
\* equally near; a label matching one row resolves to it whatever the
\* fallback row is.
C11_ClosestMatch ==
    Resolved(calc) =>
        LET ind == calc.in.indicator
            m == MatchingRows(calc.in.labels, ToLower(TrimSpace(ind.SpreadsheetName)))
            Dist(r) == Abs(r - ind.SpreadsheetRow)
        IN  m # {} =>
              /\ calc.out.found
              /\ calc.out.row \in m
              /\ \A r \in m : Dist(calc.out.row) <= Dist(r)
              /\ \A r \in m : Dist(r) = Dist(calc.out.row) => calc.out.row <= r
              /\ Cardinality(m) = 1 => m = {calc.out.row}

\* Two matching rows are equally near the fallback row.
C11_Witness ==
    /\ Resolved(calc)
    /\ LET ind == calc.in.indicator
           m == MatchingRows(calc.in.labels, ToLower(TrimSpace(ind.SpreadsheetName)))
       IN  \E a \in m, b \in m :
             /\ a < b
             /\ Abs(a - ind.SpreadsheetRow) = Abs(b - ind.SpreadsheetRow)
             /\ calc.out.row = a

(***************************************************************************)
(* Claims about the resolver inside a fetch (specification SpecDash).      *)
(***************************************************************************)
\* The label of the indicator is empty or is no key of the layout.
NoLabelMatch(l, ind) ==
    \/ ind.SpreadsheetName = <<>>
    \/ ToLower(TrimSpace(ind.SpreadsheetName)) \notin DOMAIN l.KPIRows

\* The positions of the readings FetchKPIData returned for the indicator.
ReadingsOf(ind) == {i \in 1..Len(dash.kpi) : dash.kpi[i].IndicatorCode = ind.Code}

\* C12: in a fetch that got as far as resolving rows, an active indicator
\* whose label has no match is read from its fallback row when that is
\* positive and is left out otherwise; every other active indicator has its
\* reading and the fetch returns no error.
C12_FallbackOrSkip ==
    dash.batch \in {"ok", "failed", "empty"} =>
        /\ dash.fetchErr = None
        /\ Len(dash.kpi) = Len(dash.ranges)
        /\ \A k \in 1..Len(dash.inds) :
             LET ind == dash.inds[k]
             IN  ind.IsActive =>
                   IF NoLabelMatch(ret.layout, ind)
                   THEN IF ind.SpreadsheetRow > 0
                        THEN /\ Cardinality(ReadingsOf(ind)) = 1
                             /\ \A i \in ReadingsOf(ind) :
                                  dash.ranges[i].row = ind.SpreadsheetRow
                        ELSE ReadingsOf(ind) = {}
                   ELSE Cardinality(ReadingsOf(ind)) = 1

\* A fetch that went through with one indicator left out, one read from its
\* fallback row and one found by its label.
C12_Witness ==
    /\ dash.batch = "ok"
    /\ \E a, b, c \in 1..Len(dash.inds) :
         /\ NoLabelMatch(ret.layout, dash.inds[a])
         /\ dash.inds[a].SpreadsheetRow <= 0
         /\ NoLabelMatch(ret.layout, dash.inds[b])
         /\ dash.inds[b].SpreadsheetRow > 0
         /\ ~NoLabelMatch(ret.layout, dash.inds[c])
         /\ ReadingsOf(dash.inds[c]) # {}

(***************************************************************************)
(* Claims about the calculations (specification SpecCalc).                 *)
(***************************************************************************)
\* r > k and r >= k for a number r = n/d, d > 0, and an integer k.
Over(r, k) == r.n > k * r.d
AtLeast(r, k) == r.n >= k * r.d

C14_Percentage ==
    (calc.fn = "calculatedPercentage" /\ calc.done) =>
        LET t == calc.in.Target
            a == calc.in.Performance
            out == calc.out.percentage
        IN  /\ t.n = 0 => out = Zero
            /\ t.n # 0 =>
                 LET num == 100 * a.n * t.d
                     den == a.d * t.n
                     \* num/den over 999, whatever the sign of den
                     over == IF den > 0 THEN num > 999 * den ELSE num < 999 * den
                 IN  IF over THEN out = Whole(999)
                     ELSE out.n * den = num * out.d

\* A negative quotient came back as it is.
C14_Witness ==
    /\ calc.fn = "calculatedPercentage"
    /\ calc.done
    /\ calc.out.percentage = Whole(-50)
    /\ calc.in.IsInverse

\* The rows of the table for the call's indicator, month and year.
PriorRows(c) ==
    {k \in 1..Len(c.table) :
        /\ c.table[k].IndicatorID = c.code
        /\ c.table[k].Month = c.month
        /\ c.table[k].Year = c.year}

\* C15: with no earlier snapshot of the metric for the month, or with the
\* most recent one at 0, the change is 0 and the direction neutral; else the
\* change is current minus previous, up over 0.5, down under -0.5, neutral
\* in between and at both bounds.
C15_WeekOverWeek ==
    (calc.fn = "calculateWoWChange" /\ calc.done) =>
        LET c == calc.in
            rows == PriorRows(c)
            last == CHOOSE k \in rows :
                        \A j \in rows : c.table[j].SnapshotDate <= c.table[k].SnapshotDate
            prev == c.table[last].Percentage
            ch == calc.out.change
        IN  IF rows = {} \/ prev = Zero
            THEN ch = Zero /\ calc.out.direction = "neutral"
            ELSE /\ ch.n * c.current.d * prev.d
                      = (c.current.n * prev.d - prev.n * c.current.d) * ch.d
                 /\ calc.out.direction = "up" <=> 2 * ch.n > ch.d
                 /\ calc.out.direction = "down" <=> 2 * ch.n < -ch.d
                 /\ calc.out.direction = "neutral" <=> (2 * Abs(ch.n) <= ch.d)

\* A change of exactly half a point.
C15_Witness ==
    /\ calc.fn = "calculateWoWChange"
    /\ calc.done
    /\ calc.out.change = Half
    /\ calc.out.direction = "neutral"

\* The days of the months the calls are made for.
DaysOf(month, year) ==
    CASE month = 4 -> 30
      [] month = 5 -> 31
      [] month = 2 /\ year = 2024 -> 29
      [] OTHER -> 28

\* target * currentDay / daysInMonth of a call.
ExpectedOf(c) == RatMul(c.target, Rat(c.currentDay, DaysOf(c.month, c.year)))

\* The variance of a call before any rounding; ExpectedOf(c) is not 0.
RawVarianceOf(c) ==
    LET e == ExpectedOf(c)
    IN  IF c.isInverse
        THEN RatMul(RatDiv(RatSub(e, c.actual), e), Hundred)
        ELSE RatMul(RatDiv(RatSub(c.actual, e), e), Hundred)

Band(v) ==
    IF RatLess(Whole(5), v) THEN "ahead"
    ELSE IF RatLess(v, Whole(-5)) THEN "behind"
    ELSE "on_schedule"

\* v is r to `scale` parts of a unit, a half going away from zero.
IsRounded(v, r, scale) ==
    LET vs == RatMul(v, Whole(scale))
        rs == RatMul(r, Whole(scale))
        diff == RatSub(vs, rs)
    IN  /\ vs.d = 1
        /\ 2 * Abs(diff.n) <= diff.d
        /\ 2 * Abs(diff.n) = diff.d => Abs(vs.n) * rs.d > Abs(rs.n)

\* C16 as stated: for a target of 0 or an expectation of 0 the variance is 0
\* and the status on_schedule; else the variance is (actual-expected)/expected
\* *100, or (expected-actual)/expected*100 for an inverse metric, and the
\* status is ahead over 5, behind under -5 and on_schedule otherwise.
C16_Variance ==
    (calc.fn = "calculateVariance" /\ calc.done) =>
        IF calc.in.target = Zero \/ ExpectedOf(calc.in) = Zero
        THEN calc.out.variance = Zero /\ calc.out.scheduleStatus = "on_schedule"
        ELSE /\ calc.out.variance = RawVarianceOf(calc.in)
             /\ calc.out.scheduleStatus = Band(RawVarianceOf(calc.in))

\* C16 amended: as C16, with the variance rounded to one decimal, halves away
\* from zero, the status taken from the rounded variance, and the expected
\* progress returned rounded to two decimals.
C16_RoundedVariance ==
    (calc.fn = "calculateVariance" /\ calc.done) =>
        IF calc.in.target = Zero \/ ExpectedOf(calc.in) = Zero
        THEN calc.out.variance = Zero /\ calc.out.scheduleStatus = "on_schedule"
        ELSE /\ IsRounded(calc.out.variance, RawVarianceOf(calc.in), 10)
             /\ calc.out.scheduleStatus = Band(calc.out.variance)
             /\ IsRounded(calc.out.expectedProgress, ExpectedOf(calc.in), 100)

\* Target 100, actual 90 on day 15 of 30: expected 50, variance +80, ahead.
C16_Witness ==
    /\ calc.fn = "calculateVariance"
    /\ calc.done
    /\ calc.in.target = Hundred /\ calc.in.actual = Whole(90)
    /\ ~calc.in.isInverse
    /\ calc.in.currentDay = 15 /\ calc.in.month = 4
    /\ calc.out.expectedProgress = Whole(50)
    /\ calc.out.variance = Whole(80)
    /\ calc.out.scheduleStatus = "ahead"

\* g out of t as a percentage, 0 for t = 0.
Share(g, t) == IF t = 0 THEN Zero ELSE Rat(100 * g, t)

\* C17: the green count takes the green and the supergreen metrics; the
\* overall percentage is the green count over the green, yellow and red
\* counts, times 100, and 0 with no metric; the overall status is green over
\* 85, yellow over 55 and red otherwise, never supergreen.
C17_Aggregation ==
    (calc.fn = "overallPerformance" /\ calc.done) =>
        LET c == calc.in
            o == calc.out
        IN  /\ o.GreenCount = c.supergreen + c.green
            /\ o.YellowCount = c.yellow
            /\ o.RedCount = c.red
            /\ o.Percentage = Share(o.GreenCount, o.GreenCount + o.YellowCount + o.RedCount)
            /\ Len(c.kpi) = 0 => o.Percentage = Zero
            /\ o.Status = "green" <=> Over(o.Percentage, 85)
            /\ o.Status = "yellow" <=> (Over(o.Percentage, 55) /\ ~Over(o.Percentage, 85))
            /\ o.Status = "red" <=> ~Over(o.Percentage, 55)
            /\ o.Status # "supergreen"

\* Six of seven metrics green or supergreen: green overall, under 100.
C17_Witness ==
    /\ calc.fn = "overallPerformance"
    /\ calc.done
    /\ calc.in.supergreen = 3 /\ calc.in.green = 3
    /\ calc.in.yellow + calc.in.red = 1
    /\ calc.out.Status = "green"
    /\ calc.out.Percentage = Rat(600, 7)

\* The rows of the batch saved last for the month and year of the call.
LastBatch(c) ==
    LET mine == {k \in 1..Len(c.table) :
                    c.table[k].Month = c.month /\ c.table[k].Year = c.year}
    IN  {k \in mine : \A j \in mine : c.table[j].SnapshotDate <= c.table[k].SnapshotDate}

\* The row is green or supergreen under the inverse flag of its indicator,
\* a row of no indicator counting as a normal metric.
GreenRow(c, k) ==
    LET p == c.table[k].Percentage
        inverse == \E i \in 1..Len(c.indicators) :
                       /\ c.indicators[i].Code = c.table[k].IndicatorID
                       /\ c.indicators[i].IsInverse
    IN  IF inverse THEN ~AtLeast(p, 85) ELSE Over(p, 85)

\* C18: the weekly trend is the current overall percentage minus the share of
\* green rows in the batch saved last for the month and year, each row
\* classified again with its indicator's inverse flag; up over 0.5, down under
\* -0.5, neutral in between; 0 and neutral when the month has no snapshot or
\* the lookup of the last snapshot fails.
C18_WeeklyTrend ==
    (calc.fn = "calculateWeeklyTrend" /\ calc.done) =>
        LET c == calc.in
            batch == LastBatch(c)
            green == Cardinality({k \in batch : GreenRow(c, k)})
            ch == calc.out.change
        IN  IF batch = {} \/ ~c.firstOk
            THEN ch = Zero /\ calc.out.direction = "neutral"
            ELSE /\ ch = RatSub(c.current, Share(green, Cardinality(batch)))
                 /\ calc.out.prevGreenCount = green
                 /\ calc.out.direction = "up" <=> 2 * ch.n > ch.d
                 /\ calc.out.direction = "down" <=> 2 * ch.n < -ch.d
                 /\ calc.out.direction = "neutral" <=> (2 * Abs(ch.n) <= ch.d)

\* The last batch holds a row that only the inverse flag makes green, and
\* the trend is down by half a point: neutral.
C18_Witness ==
    /\ calc.fn = "calculateWeeklyTrend"
    /\ calc.done
    /\ calc.in.firstOk
    /\ \E k \in LastBatch(calc.in) :
         GreenRow(calc.in, k) /\ ~Over(calc.in.table[k].Percentage, 85)
    /\ calc.out.change = MinusHalf
    /\ calc.out.direction = "neutral"

\* The decimal texts among the cells, '%' and ',' removed and trimmed, with
\* the numbers they denote.
Decimals ==
    { [text |-> <<"1","2","3","4",".","5">>, value |-> Rat(12345, 10)],
      [text |-> <<"1","2">>, value |-> Whole(12)],
      [text |-> <<"-","5">>, value |-> Whole(-5)],
      [text |-> <<"+","5">>, value |-> Whole(5)],
      [text |-> <<".","5">>, value |-> Rat(1, 2)],
      [text |-> <<"5",".">>, value |-> Whole(5)],
      [text |-> <<"1","e","3">>, value |-> Whole(1000)],
      [text |-> <<"2","5","E","-","1">>, value |-> Rat(5, 2)],
      [text |-> <<"0">>, value |-> Zero],
      [text |-> <<"9","0">>, value |-> Whole(90)],
      [text |-> <<"1","0","0","0">>, value |-> Whole(1000)] }

\* The text of a cell after the removal of '%' and ',' and the trimming.
Cleaned(cell) == TrimSpace(RemoveAll(RemoveAll(cell.s, "%"), ","))

\* C19: the parser gives 0 for an absent cell and the number itself for a
\* number; for a text, cleaned of '%' and ',' and trimmed, it gives 0 for ""
\* and "-", the value of a decimal ("1,234.5%" gives 1234.5) and 0 for any
\* other text.
C19_ParserTotal ==
    (calc.fn = "parseFloat" /\ calc.done) =>
        LET cell == calc.in.val
            out == calc.out.value
        IN  /\ cell.kind = "nil" => out = Zero
            /\ cell.kind = "number" => out = cell.v
            /\ cell.kind = "string" =>
                 IF Cleaned(cell) \in {<<>>, <<"-">>} THEN out = Zero
                 ELSE IF \E p \in Decimals : p.text = Cleaned(cell)
                 THEN \A p \in Decimals : p.text = Cleaned(cell) => out = p.value
                 ELSE out = Zero
            /\ cell = Str(<<"1",",","2","3","4",".","5","%">>) => out = Rat(12345, 10)

\* The header texts that have one of the four shapes "<Month> Target",
\* "<Month> Lagging", "% <Month> Performance" and "<Month>", in any case and
\* with spaces around, each with the slot it names.
Shapes ==
    { [text |-> <<" ","M","A","Y"," ","t","a","r","g","e","t"," ">>, month |-> 5, colType |-> "target"],
      [text |-> <<"M","a","y"," ","T","a","r","g","e","t">>, month |-> 5, colType |-> "target"],
      [text |-> <<"M","a","y"," ","L","a","g","g","i","n","g">>, month |-> 5, colType |-> "lagging"],
      [text |-> <<"%"," ","M","a","y"," ","P","e","r","f","o","r","m","a","n","c","e">>, month |-> 5, colType |-> "percent"],
      [text |-> <<"%"," "," ","j","u","n","e"," "," ","P","E","R","F","O","R","M","A","N","C","E">>, month |-> 6, colType |-> "percent"],
      [text |-> <<"m","a","y">>, month |-> 5, colType |-> "perf"],
      [text |-> <<"J","u","n","e">>, month |-> 6, colType |-> "perf"],
      [text |-> <<"j","u","n","e"," ","l","a","g","g","i","n","g">>, month |-> 6, colType |-> "lagging"] }

ColTypes == {"target", "lagging", "percent", "perf"}

\* The position of a column type in an entry of the result.
SlotOf(colType) ==
    CASE colType = "target" -> 1
      [] colType = "lagging" -> 2
      [] colType = "percent" -> 3
      [] colType = "perf" -> 4

\* The one-based positions of the cells of row that name the slot (m, t).
Claimers(row, m, t) ==
    {i \in 1..Len(row) :
        \E p \in Shapes : row[i] = Str(p.text) /\ p.month = m /\ p.colType = t}

\* C20: header discovery records, for each (month, column type) slot, the
\* zero-based index of the rightmost cell of that shape; the months of the
\* result are those named by some cell, a cell of no shape changes nothing,
\* and a slot no cell names stays 0.
C20_HeaderDiscovery ==
    (calc.fn = "discoverColumns" /\ calc.done) =>
        LET row == calc.in.row
            cols == calc.out.cols
        IN  /\ calc.out.err = None
            /\ DOMAIN cols =
                 {m \in 1..12 : \E t \in ColTypes : Claimers(row, m, t) # {}}
            /\ \A m \in DOMAIN cols : \A t \in ColTypes :
                 cols[m][SlotOf(t)] =
                     IF Claimers(row, m, t) = {} THEN 0
                     ELSE SetMax(Claimers(row, m, t)) - 1

\* Two cells name the same slot, a third has no shape, and the index of the
\* later of the two is the one recorded.
C20_Witness ==
    /\ calc.fn = "discoverColumns"
    /\ calc.done
    /\ \E m \in 1..12 : \E t \in ColTypes :
         LET row == calc.in.row
         IN  /\ Claimers(row, m, t) = {2, 3}
             /\ row[2] # row[3]
             /\ \A n \in 1..12 : \A u \in ColTypes : 1 \notin Claimers(row, n, u)
             /\ calc.out.cols[m][SlotOf(t)] = 2

(***************************************************************************)
(* Claims about the batch read, the store and the cache, continued.        *)
(***************************************************************************)
\* The number in the cell of the sheet at a one-based row and a zero-based
\* column, 0 where the sheet has no such cell.
CellOf(data, row, idx) ==
    IF row >= 1 /\ row <= Len(data) /\ idx + 1 <= Len(data[row])
    THEN parseFloat(data[row][idx + 1])
    ELSE Zero

\* C21: a batch read that succeeds yields one reading per resolved active
\* indicator, in the order of the indicator list; the i-th reading carries
\* the code, department, name and inverse flag of the i-th such indicator and
\* the target, percentage and performance read from that indicator's row.
C21_PositionalReadings ==
    [][ (dash.pc = "layout" /\ dash'.batch = "ok") =>
          LET l == ret.layout
              cols == l.MonthColumns[dash.month]
              resolved == ResolvedOf(dash.inds, l)
              kpi == dash'.kpi
          IN  /\ dash'.fetchErr = None
              /\ Len(kpi) = Len(resolved)
              /\ \A i \in 1..Len(resolved) :
                   LET ind == resolved[i]
                       row == getIndicatorRow(l, ind).row
                   IN  /\ kpi[i].IndicatorCode = ind.Code
                       /\ kpi[i].Department = ind.Department
                       /\ kpi[i].Name = ind.Name
                       /\ kpi[i].IsInverse = ind.IsInverse
                       /\ kpi[i].Target = CellOf(sheet.data, row, cols[1])
                       /\ kpi[i].Percentage = CellOf(sheet.data, row, cols[3])
                       /\ kpi[i].Performance = CellOf(sheet.data, row, cols[4])
      ]_vars

\* A batch read of two rows for a list of three indicators, the second of
\* which is left out: the readings are those of the first and the third.
C21_Witness ==
    /\ dash.batch = "ok"
    /\ Len(dash.inds) = 3
    /\ Len(dash.kpi) = 2
    /\ dash.kpi[1].IndicatorCode = dash.inds[1].Code
    /\ dash.kpi[1].Target = Whole(1000)
    /\ dash.kpi[2].IndicatorCode = dash.inds[3].Code
    /\ dash.kpi[2].IsInverse
    /\ dash.kpi[2].Performance = Rat(9, 2)

\* The rows of the first n indicators of a call, as the call builds them.
FirstRows(c, n) ==
    [i \in 1..n |-> MkSnapshot(c.inds[i], c.date, c.month, c.year, c.week)]

\* C22: a SaveSnapshot call whose k-th insert failed has returned that error,
\* and the rows stored for its (month, year, week) are the rows of its first
\* k-1 indicators and nothing else: the rows stored before are deleted and
\* no later indicator is inserted.
C22_PartialInsert ==
    \A p \in Savers :
        (sv[p].done /\ sv[p].err = "create failed") =>
            RowsOfWeek(snapshots, sv[p].month, sv[p].year, sv[p].week)
                = FirstRows(sv[p], sv[p].i - 1)

\* C23: under fair scheduling no call of GetLayout or InvalidateLayout stays
\* inside for ever and the lock never stays held: a caller that has entered
\* returns, a held write lock is released, and when every caller is outside
\* the lock is free, whichever exit each call took.
C23_NoDeadlock ==
    /\ \A p \in Procs : (pc[p] # "idle") ~> (pc[p] = "idle")
    /\ (writer # 0) ~> (writer = 0)
    /\ [](\A p \in Procs : pc[p] = "idle" => writer # p /\ p \notin readers)

\* A caller waits for the write lock that another caller holds inside its
\* refresh.
C23_Witness ==
    \E p, q \in Procs :
        /\ p # q
        /\ pc[p] = "gl_wantlock"
        /\ writer = q
        /\ pc[q] = "gl_discover"

\* The cache holds a snapshot that has outlived the freshness window.
CacheStale == ~layout.isNil /\ ~CacheFresh

\* C24: a failed refresh that serves the stale snapshot leaves the stored
\* snapshot and its capture time as they were, and a Stale cache stays Stale
\* until a discovery succeeds or the cache is invalidated; while it is Stale
\* no GetLayout call returns from the cache: each goes on from the first test
\* to the write lock and from the second test to the refresh, which makes one
\* attempt and returns.
C24_StaleStaysStale ==
    [][\A p \in Procs :
        /\ (Refreshing(p) /\ pc'[p] = "idle" /\ ret'.path = "stale") =>
             /\ layout' = layout
             /\ ret'.layout = layout
             /\ CacheStale'
        /\ (CacheStale /\ ~CacheStale') =>
             \E q \in Procs :
                \/ pc[q] = "gl_discover" /\ ret'.path = "refreshed" /\ CacheFresh'
                \/ pc[q] = "inv_locked" /\ layout'.isNil
        /\ (CacheStale /\ pc[p] = "gl_rlocked" /\ pc'[p] # pc[p]) =>
             pc'[p] = "gl_wantlock"
        /\ (CacheStale /\ pc[p] = "gl_locked" /\ pc'[p] # pc[p]) =>
             pc'[p] = "gl_client"
        /\ (Refreshing(p) /\ pc'[p] # pc[p]) =>
             \/ pc[p] = "gl_client" /\ pc'[p] = "gl_discover"
             \/ pc'[p] = "idle"]_vars

\* A failed refresh has served the stale snapshot, the cache is still Stale
\* and another caller is in the discovery again.
C24_Witness ==
    /\ ret.path = "stale"
    /\ ret.layout = layout
    /\ CacheStale
    /\ \E p \in Procs : pc[p] = "gl_discover"

\* C25: after InvalidateLayout the snapshot that was cached is gone: a
\* refresh that fails before any other refresh has run returns the error and
\* no snapshot, and the cache is Absent before and after it.
C25_InvalidateDiscards ==
    [][\A p \in Procs :
        (forced # "no" /\ Refreshing(p) /\ pc'[p] = "idle"
            /\ ret'.path # "refreshed") =>
                /\ layout.isNil
                /\ ret'.err # None
                /\ ret'.layout.isNil
                /\ ret'.path = "error"
                /\ layout'.isNil]_vars

\* A Fresh snapshot was invalidated and the next caller is in a discovery
\* that cannot succeed: the header row of the sheet is empty.
C25_Witness ==
    /\ forced = "young"
    /\ layout.isNil
    /\ sheet.header = <<>>
    /\ \E p \in Procs : pc[p] = "gl_discover"

(***************************************************************************)
(* Claims about the settings (specification SpecSettings).                 *)
(***************************************************************************)
\* C26: a GetLayout call returns no snapshot of another spreadsheet than the
\* one configured: the snapshot it returns was discovered from the source
\* that the settings name when the call returns.
C26_NewSourceOnly ==
    [][ (pc[1] # "idle" /\ pc'[1] = "idle" /\ ~ret'.layout.isNil) =>
            ret'.layout.Source = config.SpreadsheetID ]_vars

(***************************************************************************)
(* Claims about the snapshot store, continued.                             *)
(***************************************************************************)
\* A completed SaveSnapshot call for a non-empty list, no statement of which
\* failed.
Saved(c) == c.done /\ c.inds # <<>> /\ ~c.failed

\* C27: when two SaveSnapshot calls for the same (month, year, week) have
\* both returned, every statement of both having succeeded, the rows stored
\* for the key are the set of one of the two calls, one row per indicator.
C27_OneSetSurvives ==
    \A p, q \in Savers :
        (p # q /\ Saved(sv[p]) /\ Saved(sv[q])
            /\ sv[p].month = sv[q].month /\ sv[p].year = sv[q].year
            /\ sv[p].week = sv[q].week) =>
                RowsOfWeek(snapshots, sv[p].month, sv[p].year, sv[p].week)
                    \in {Asked(sv[p]), Asked(sv[q])}

\* The rows of the table outside a (month, year, week).
RowsOutside(table, m, y, w) ==
    LET Out(r) == ~InWeek(r, m, y, w) IN SelectSeq(table, Out)

\* C28: a statement of SaveSnapshot or DeleteSnapshotWeek, whether it succeeds
\* or fails, leaves the rows of every other (month, year, week) as they were.
C28_OtherWeeksUntouched ==
    [][\A p \in Savers :
        sv'[p] # sv[p] =>
            RowsOutside(snapshots', sv'[p].month, sv'[p].year, sv'[p].week)
                = RowsOutside(snapshots, sv'[p].month, sv'[p].year, sv'[p].week)
      ]_vars

\* A call has replaced the rows of its week while rows of another week,
\* stored before, are still in the table.
C28_Witness ==
    /\ Saved(sv[1])
    /\ Len(snapshots) >= 2
    /\ snapshots[1].WeekNumber # sv[1].week
    /\ RowsOfWeek(snapshots, sv[1].month, sv[1].year, sv[1].week) = Asked(sv[1])

(***************************************************************************)
(* Claims about the calculations, continued (specification SpecCalc).      *)
(***************************************************************************)
\* C29: whatever the month and year asked for and whatever the day it is, the
\* day counted by calculateVariance is a day of the month asked for, so the
\* progress ratio is above 0 and at most 1, and for a positive target the
\* expected progress returned is at most the target.
C29_ProgressWithinMonth ==
    (calc.fn = "calculateVariance" /\ calc.done) =>
        /\ calc.in.currentDay >= 1
        /\ calc.in.currentDay <= DaysOf(calc.in.month, calc.in.year)
        /\ RatLess(Zero, calc.in.target) =>
             RatLeq(calc.out.expectedProgress, calc.in.target)

\* The column types whose positions FetchKPIData reads from a month's entry.
FetchedTypes == {"target", "percent", "perf"}

\* C30: for every month of a discovered layout, the target, percent and
\* actual positions that FetchKPIData reads are each the index of a header
\* cell of that month and that column type.
C30_PositionsAreHeaders ==
    (calc.fn = "discoverColumns" /\ calc.done) =>
        \A m \in DOMAIN calc.out.cols : \A t \in FetchedTypes :
            calc.out.cols[m][SlotOf(t)] + 1 \in Claimers(calc.in.row, m, t)

====
